---- MODULE Spec2Model ----
(***************************************************************************)
(* SVAR, the sound-activated recorder: the ring buffer (rbuf.c), the       *)
(* recorder core (recorder.c: recorder_start, recorder_stop,               *)
(* recorder_monitor, recorder_process and the consumer recorder_thread)    *)
(* and the ALSA capture loop (recorder-alsa.c).                            *)
(*                                                                         *)
(* Pointers into the ring buffer are byte offsets from rb.begin, so        *)
(* begin = 0 and end = nmemb * size.  Samples are identified by the order  *)
(* in which the capture device produced them (1, 2, 3, ...), so that a     *)
(* duplicated, reordered or overwritten sample is visible.                 *)
(***************************************************************************)
EXTENDS Integers, Sequences, FiniteSets, TLC

\* ---------------------------------------------------------------- bounds
\* Largest ring buffer of the stand-alone ring-buffer specification.
MaxNmemb == 4
\* Cap on the number of elements committed for write in one run.
MaxTotal == 9
\* The same cap in the runs that are checked for liveness.
LiveTotal == 2
\* Sampling rate of the recorder; rate / 10 frames make one read period.
Rate == 10
\* Number of recorder_stop calls in one run.
MaxStops == 1
\* Longest chunk (in frames) a callback backend delivers.
MaxChunkFrames == 3
\* Last instant of the monotonic clock, and the step by which it advances.
MaxNow == 2
TickMs == 2
\* Width of size_t in bits, narrowed from the 64 bits of the build.
SizeBits == 16

VARIABLES
    rb,               \* struct rbuf
    mem,              \* the memory block of the ring buffer, one cell per element
    wtotal, rtotal,   \* elements committed for write / for read so far
    cfg,              \* the recorder's configuration, fixed once started
    started,          \* r->started
    mutex,            \* owner of r->mutex, or "free"
    pc_m,             \* recorder_start (the thread that runs the backend)
    pc_c,             \* recorder_thread (the consumer)
    pc_p,             \* the producer: the ALSA capture thread or a backend callback
    samples,          \* recorder_thread: local `samples`
    p_samples,        \* recorder_process: `samples`, the rest of the chunk
    p_n,              \* ALSA loop: `samples`, then the samples read;
                      \* recorder_process: iterations of its loop so far
    bk,               \* the backend's capture: "idle", "active" or "done"
    w,                \* struct writer and the files it produced
    written,          \* every sample handed to w->write, in order
    committed,        \* every sample committed to the ring buffer, in order
    now,              \* CLOCK_MONOTONIC_RAW
    activation_time,  \* recorder_monitor: static activation_time
    ts_last_write,    \* recorder_thread: ts_last_write
    stopped,          \* number of recorder_stop calls so far
    at_clear,         \* wtotal when r->started was first cleared, -1 before
    log,              \* last message of the producer ("" when none)
    mon,              \* per recorder: its call of recorder_monitor, and when
                      \* it last evaluated a chunk above the threshold
    calls,            \* the calls made on the writer when it is used on its
                      \* own, in order
    dev,              \* the backend's resources and the recorder's reference
                      \* to them (r->r)
    pcm               \* a chunk of PCM data and the level computed for it

vars == << rb, mem, wtotal, rtotal, cfg, started, mutex, pc_m, pc_c, pc_p,
           samples, p_samples, p_n, bk, w, written, committed, now,
           activation_time, ts_last_write, stopped, at_clear, log, mon,
           calls, dev, pcm >>

\* What only the operations checked on their own change.
auxVars == << calls, dev, pcm >>

rbVars == << rb, mem, wtotal, rtotal >>
MIN(a, b) == IF a < b THEN a ELSE b

\* ------------------------------------------------------------------ pcm.c
PCM_FORMAT_U8 == "U8"
PCM_FORMAT_S16LE == "S16LE"

pcm_format_size(format, n) ==
    CASE format = PCM_FORMAT_U8 -> 1 * n
      [] format = PCM_FORMAT_S16LE -> 2 * n
      [] OTHER -> 0

\* ----------------------------------------------------------------- rbuf.c
\* Arithmetic on a size_t wraps around.
size_t(x) == x % (2 ^ SizeBits)

rbuf_init(nmemb, size) ==
    [ begin |-> 0, head |-> 0, tail |-> 0, end |-> nmemb * size,
      nmemb |-> nmemb, size |-> size, used |-> 0 ]

rbuf_read_linear_capacity_NoUsed(b) ==
    IF b.head < b.tail
    THEN (b.tail - b.head) \div b.size
    ELSE (b.end - b.head) \div b.size

rbuf_read_linear_capacity(b) ==
    IF b.head < b.tail
    THEN (b.tail - b.head) \div b.size
    ELSE LET nmemb == (b.end - b.head) \div b.size
         IN  IF b.used = 0 THEN 0 ELSE nmemb

rbuf_read_linear_commit_NoWrap(b, nmemb) ==
    [ b EXCEPT !.head = b.head + nmemb * b.size,
               !.used = size_t(b.used - nmemb) ]

rbuf_read_linear_commit_KeepUsed(b, nmemb) ==
    LET head == b.head + nmemb * b.size
    IN  [ b EXCEPT !.head = IF head = b.end THEN b.begin ELSE head ]

rbuf_read_linear_commit(b, nmemb) ==
    LET head == b.head + nmemb * b.size
    IN  [ b EXCEPT !.head = IF head = b.end THEN b.begin ELSE head,
                   !.used = size_t(b.used - nmemb) ]

rbuf_write_linear_capacity_OneFree(b) ==
    IF b.tail < b.head
    THEN (b.head - b.tail) \div b.size - 1
    ELSE LET nmemb == (b.end - b.tail) \div b.size
         IN  IF b.used = b.nmemb THEN 0 ELSE nmemb

rbuf_write_linear_capacity_NoUsed(b) ==
    IF b.tail < b.head
    THEN (b.head - b.tail) \div b.size
    ELSE (b.end - b.tail) \div b.size

rbuf_write_linear_capacity(b) ==
    IF b.tail < b.head
    THEN (b.head - b.tail) \div b.size
    ELSE LET nmemb == (b.end - b.tail) \div b.size
         IN  IF b.used = b.nmemb THEN 0 ELSE nmemb

rbuf_write_linear_commit_KeepUsed(b, nmemb) ==
    LET tail == b.tail + nmemb * b.size
    IN  [ b EXCEPT !.tail = IF tail = b.end THEN b.begin ELSE tail ]

rbuf_write_linear_commit_NoWrap(b, nmemb) ==
    [ b EXCEPT !.tail = b.tail + nmemb * b.size,
               !.used = size_t(b.used + nmemb) ]

rbuf_write_linear_commit(b, nmemb) ==
    LET tail == b.tail + nmemb * b.size
    IN  [ b EXCEPT !.tail = IF tail = b.end THEN b.begin ELSE tail,
                   !.used = size_t(b.used + nmemb) ]

\* Element index of a pointer into the memory block.
ElemOf(b, ptr) == (ptr - b.begin) \div b.size

\* ----------------------------------------------------------- writer-wav.c
\* A writer as writer_new leaves it: closed, no stream handle.  err is the
\* value the last open returned (0 before any); streams is the number of
\* streams this writer has opened and not closed.
writer_new ==
    [ type |-> "wav", opened |-> FALSE, sf |-> FALSE, freed |-> FALSE,
      err |-> 0, streams |-> 0 ]

writer_close_KeepHandle(wr) ==
    [ wr EXCEPT !.opened = FALSE,
                !.streams = IF wr.sf THEN @ - 1 ELSE @ ]

\* sf_close on the stream that is held, if any.
writer_close(wr) ==
    [ wr EXCEPT !.opened = FALSE, !.sf = FALSE,
                !.streams = IF wr.sf THEN @ - 1 ELSE @ ]

\* sf_open creates the file (ok) or fails; the previous stream is closed
\* first.
writer_open(wr, ok) ==
    IF ok
    THEN [ writer_close(wr) EXCEPT !.sf = TRUE, !.opened = TRUE, !.err = 0,
                                   !.streams = @ + 1 ]
    ELSE [ writer_close(wr) EXCEPT !.err = -1 ]

writer_free_NoClose(wr) == [ wr EXCEPT !.freed = TRUE ]

\* writer_free closes the stream, then releases the writer.
writer_free(wr) == [ writer_close(wr) EXCEPT !.freed = TRUE ]

\* ---------------------------------- writer.c, writer-mp3.c, writer-opus.c,
\* ---------------------------------- writer-vorbis.c
\* What a constructor returns when it returns no writer.
NULL == [ null |-> TRUE ]

\* writer_raw_new: any format; ok is the success of its allocations.
writer_raw_new(format, ok) ==
    IF ok
    THEN [ type |-> "raw", opened |-> FALSE, f |-> FALSE, freed |-> FALSE,
           err |-> 0, streams |-> 0 ]
    ELSE NULL

writer_raw_close(wr) ==
    [ wr EXCEPT !.opened = FALSE, !.f = FALSE,
                !.streams = IF wr.f THEN @ - 1 ELSE @ ]

\* close, then fopen: `if ((w->f = fopen(pathname, "w")) != NULL) return -1;`
\* returns -1 with the stream held when the file was created, and sets
\* opened and returns 0 with f == NULL when it was not.
writer_raw_open(wr, created) ==
    IF created
    THEN [ writer_raw_close(wr) EXCEPT !.f = TRUE, !.err = -1,
                                       !.streams = @ + 1 ]
    ELSE [ writer_raw_close(wr) EXCEPT !.opened = TRUE, !.err = 0 ]

writer_raw_free(wr) == [ writer_raw_close(wr) EXCEPT !.freed = TRUE ]

\* writer_wav_new: both formats.
writer_wav_new(format, ok) == IF ok THEN writer_new ELSE NULL

writer_mp3_new_AnyFormat(format, ok) ==
    IF ok
    THEN [ type |-> "mp3", opened |-> FALSE, fp |-> FALSE, freed |-> FALSE,
           err |-> 0, streams |-> 0 ]
    ELSE NULL

\* writer_mp3_new: NULL unless the format is S16LE; ok is the success of its
\* allocations and of the encoder's set-up.
writer_mp3_new(format, ok) ==
    IF format # PCM_FORMAT_S16LE
    THEN NULL
    ELSE IF ok
         THEN [ type |-> "mp3", opened |-> FALSE, fp |-> FALSE,
                freed |-> FALSE, err |-> 0, streams |-> 0 ]
         ELSE NULL

\* lame_encode_flush, fwrite and fclose on the stream that is held, if any.
writer_mp3_close(wr) ==
    [ wr EXCEPT !.opened = FALSE, !.fp = FALSE,
                !.streams = IF wr.fp THEN @ - 1 ELSE @ ]

writer_mp3_open_NoClose(wr, created) ==
    IF created
    THEN [ wr EXCEPT !.fp = TRUE, !.opened = TRUE, !.err = 0,
                     !.streams = @ + 1 ]
    ELSE [ wr EXCEPT !.fp = FALSE, !.err = -1 ]

writer_mp3_open(wr, created) ==
    IF created
    THEN [ writer_mp3_close(wr) EXCEPT !.fp = TRUE, !.opened = TRUE,
                                       !.err = 0, !.streams = @ + 1 ]
    ELSE [ writer_mp3_close(wr) EXCEPT !.err = -1 ]

writer_mp3_free(wr) == [ writer_mp3_close(wr) EXCEPT !.freed = TRUE ]

writer_opus_new(format, ok) ==
    IF format # PCM_FORMAT_S16LE
    THEN NULL
    ELSE IF ok
         THEN [ type |-> "opus", opened |-> FALSE, enc |-> FALSE,
                freed |-> FALSE, err |-> 0, streams |-> 0 ]
         ELSE NULL

\* ope_encoder_drain and ope_encoder_destroy on the encoder that is held.
writer_opus_close(wr) ==
    [ wr EXCEPT !.opened = FALSE, !.enc = FALSE,
                !.streams = IF wr.enc THEN @ - 1 ELSE @ ]

\* ope_encoder_create_file creates the file together with the encoder.
writer_opus_open(wr, created) ==
    IF created
    THEN [ writer_opus_close(wr) EXCEPT !.enc = TRUE, !.opened = TRUE,
                                        !.err = 0, !.streams = @ + 1 ]
    ELSE [ writer_opus_close(wr) EXCEPT !.err = -1 ]

writer_opus_free(wr) == [ writer_opus_close(wr) EXCEPT !.freed = TRUE ]

writer_vorbis_new(format, ok) ==
    IF format # PCM_FORMAT_S16LE
    THEN NULL
    ELSE IF ok
         THEN [ type |-> "vorbis", opened |-> FALSE, fp |-> FALSE,
                freed |-> FALSE, err |-> 0, streams |-> 0 ]
         ELSE NULL

\* The last pages are flushed and fclose is called on the stream that is
\* held, if any.
writer_vorbis_close(wr) ==
    [ wr EXCEPT !.opened = FALSE, !.fp = FALSE,
                !.streams = IF wr.fp THEN @ - 1 ELSE @ ]

writer_vorbis_open(wr, created) ==
    IF created
    THEN [ writer_vorbis_close(wr) EXCEPT !.fp = TRUE, !.opened = TRUE,
                                          !.err = 0, !.streams = @ + 1 ]
    ELSE [ writer_vorbis_close(wr) EXCEPT !.err = -1 ]

writer_vorbis_free(wr) == [ writer_vorbis_close(wr) EXCEPT !.freed = TRUE ]

\* The n cells of the memory block m from element `first` on, as a sequence.
Cells(m, first, n) == [ k \in 1..n |-> m[first + k - 1] ]

\* The memory block after n samples were stored from element `first` on.  A
\* stored sample is labelled with the position it takes in the order of
\* commits if it is committed.
Store(first, n) ==
    [ i \in DOMAIN mem |->
        IF first <= i /\ i < first + n THEN wtotal + (i - first) + 1 ELSE mem[i] ]

\* ------------------------------------------------- stand-alone ring buffer
\* The recorders of the process: A is the one that is started, B another
\* instance made by recorder_new.
Recorders == {"A", "B"}

\* No call of recorder_monitor is in progress or was made.  at and loud_at
\* are kept where the detector is called on its own: the time of the call,
\* and the time at which the recorder last evaluated a chunk whose RMS
\* exceeded the threshold, -1 while there was none.
NoCall(loud_at) ==
    [ called |-> FALSE, ret |-> 0, rms |-> 0, at |-> 0, loud_at |-> loud_at ]

\* No call was made on a writer of its own, and no chunk was measured.
NoChunk == [ format |-> PCM_FORMAT_U8, buffer |-> << >>, db |-> 0, fault |-> "" ]

AuxIdle ==
    /\ calls = << >>
    /\ dev = "none"
    /\ pcm = NoChunk

\* The values the recorder's variables keep while only the ring buffer runs.
RecIdle ==
    /\ cfg = [ backend |-> "none", format |-> PCM_FORMAT_U8, channels |-> 1,
               monitor |-> FALSE, verbose |-> 0, threshold |-> 0,
               fadeout |-> 0, split |-> 0, supply |-> 0 ]
    /\ started = FALSE
    /\ mutex = "free"
    /\ pc_m = "created" /\ pc_c = "none" /\ pc_p = "none"
    /\ samples = 0
    /\ p_samples = 0
    /\ p_n = 0
    /\ bk = "idle"
    /\ w = writer_new
    /\ written = << >>
    /\ committed = << >>
    /\ now = 0
    /\ activation_time = 0
    /\ ts_last_write = 0
    /\ stopped = 0
    /\ at_clear = -1
    /\ log = ""
    /\ mon = [ r \in Recorders |-> NoCall(-1) ]
    /\ AuxIdle

InitRbuf ==
    /\ \E nmemb \in 1..MaxNmemb, format \in {PCM_FORMAT_U8, PCM_FORMAT_S16LE} :
          /\ rb = rbuf_init(nmemb, pcm_format_size(format, 1))
          /\ mem = [ i \in 0..(nmemb - 1) |-> 0 ]
    /\ wtotal = 0
    /\ rtotal = 0
    /\ RecIdle

\* What a step of the ring buffer's caller leaves alone in the recorder.
callerVars == << auxVars, cfg, started, mutex, pc_m, pc_c, pc_p, samples, p_samples, p_n,
                 bk, w, now, activation_time, ts_last_write, stopped, at_clear,
                 log, mon >>

\* A writer stores n elements at rb.tail and commits them for write.
RbufWrite(n) ==
    /\ mem' = Store(ElemOf(rb, rb.tail), n)
    /\ rb' = rbuf_write_linear_commit(rb, n)
    /\ committed' = committed \o Cells(mem', ElemOf(rb, rb.tail), n)
    /\ wtotal' = wtotal + n
    /\ UNCHANGED << auxVars, rtotal, written >>
    /\ UNCHANGED callerVars

\* A reader takes n elements from rb.head and commits them as read.
RbufRead(n) ==
    /\ written' = written \o Cells(mem, ElemOf(rb, rb.head), n)
    /\ rb' = rbuf_read_linear_commit(rb, n)
    /\ rtotal' = rtotal + n
    /\ UNCHANGED << auxVars, mem, wtotal, committed >>
    /\ UNCHANGED callerVars

\* The caller writes n elements, n within the linear write capacity.
RbufWriteCommit ==
    \E n \in 1..rbuf_write_linear_capacity(rb) :
        wtotal + n <= MaxTotal /\ RbufWrite(n)

\* The caller reads n elements, n within the linear read capacity.
RbufReadCommit == \E n \in 1..rbuf_read_linear_capacity(rb) : RbufRead(n)

NextRbuf == RbufWriteCommit \/ RbufReadCommit

SpecRbuf == InitRbuf /\ [][NextRbuf]_vars

\* ---- the ring buffer of test_rbuf_read_write (tc-rbuf.c)
\* rbuf_init(&rb, 1024, sizeof(int)); the commits of the test are of 512 and
\* of 256 elements.
ScenarioNmemb == 1024
ScenarioChunks == {256, 512}
\* Number of times the traffic of one run fills the buffer.
ScenarioRounds == 8

InitScenario ==
    /\ \E size \in {pcm_format_size(PCM_FORMAT_S16LE, 1), 4} :
          rb = rbuf_init(ScenarioNmemb, size)
    /\ mem = [ i \in 0..(ScenarioNmemb - 1) |-> 0 ]
    /\ wtotal = 0
    /\ rtotal = 0
    /\ RecIdle

ScenarioWrite ==
    \E n \in ScenarioChunks :
        /\ n <= rbuf_write_linear_capacity(rb)
        /\ wtotal + n <= ScenarioRounds * ScenarioNmemb
        /\ RbufWrite(n)

ScenarioRead ==
    \E n \in ScenarioChunks :
        /\ n <= rbuf_read_linear_capacity(rb)
        /\ RbufRead(n)

NextScenario == ScenarioWrite \/ ScenarioRead

SpecScenario == InitScenario /\ [][NextScenario]_vars

\* ---- commits that no capacity query allows
\* The cursors are inside the memory block and used counts its elements.
\* The commits change only the cursors and used; what a later call returns
\* once a cursor has left the block is not defined.
Intact ==
    /\ rb.begin <= rb.head /\ rb.head < rb.end
    /\ rb.begin <= rb.tail /\ rb.tail < rb.end
    /\ rb.used <= rb.nmemb

\* rbuf_write_linear_commit with nmemb above the linear write capacity.
RbufWriteOver ==
    \E n \in (rbuf_write_linear_capacity(rb) + 1)..(rb.nmemb + 1) :
        /\ Intact
        /\ wtotal + n <= MaxTotal
        /\ rb' = rbuf_write_linear_commit(rb, n)
        /\ wtotal' = wtotal + n
        /\ UNCHANGED << auxVars, mem, rtotal, written, committed >>
        /\ UNCHANGED callerVars

\* rbuf_read_linear_commit with nmemb above the linear read capacity.
RbufReadOver ==
    \E n \in (rbuf_read_linear_capacity(rb) + 1)..(rb.nmemb + 1) :
        /\ Intact
        /\ rb' = rbuf_read_linear_commit(rb, n)
        /\ rtotal' = rtotal + n
        /\ UNCHANGED << auxVars, mem, wtotal, written, committed >>
        /\ UNCHANGED callerVars

\* The commits within the capacity, while the buffer is intact.
RbufWriteWithin == Intact /\ RbufWriteCommit
RbufReadWithin == Intact /\ RbufReadCommit

NextRbufAny ==
    \/ RbufWriteWithin \/ RbufReadWithin
    \/ RbufWriteOver \/ RbufReadOver

SpecRbufAny == InitRbuf /\ [][NextRbufAny]_vars

\* ------------------------------------------------------------- recorder.c
ts_diff_ms(ts1, ts2) == ts1 - ts2

\* Loudness of a chunk of n samples as pcm_rms_db reports it: the floor for an
\* empty chunk, otherwise what the samples give.
FloorDb == -96
ChunkDb(n) == IF n = 0 THEN {FloorDb} ELSE {FloorDb, cfg.threshold, cfg.threshold + 10}

recorder_monitor_GE(rms_db, t1, t2) ==
    IF cfg.monitor
    THEN [ ret |-> -2, activation_time |-> activation_time ]
    ELSE LET at == IF rms_db >= cfg.threshold THEN t1 ELSE activation_time
         IN  [ ret |-> IF ts_diff_ms(t2, at) <= cfg.fadeout THEN 0 ELSE -1,
               activation_time |-> at ]

recorder_monitor_Before(rms_db, t1, t2) ==
    IF cfg.monitor
    THEN [ ret |-> -2, activation_time |-> activation_time ]
    ELSE LET at == IF rms_db > cfg.threshold THEN t1 ELSE activation_time
         IN  [ ret |-> IF ts_diff_ms(t2, at) < cfg.fadeout THEN 0 ELSE -1,
               activation_time |-> at ]

recorder_monitor_NoFlag(rms_db, t1, t2) ==
    LET at == IF rms_db > cfg.threshold THEN t1 ELSE activation_time
    IN  [ ret |-> IF ts_diff_ms(t2, at) <= cfg.fadeout THEN 0 ELSE -1,
          activation_time |-> at ]

\* recorder_monitor on a chunk of loudness rms_db; t1 and t2 are the two clock
\* readings.  The result and the new value of the static activation_time.
recorder_monitor(rms_db, t1, t2) ==
    IF cfg.monitor
    THEN [ ret |-> -2, activation_time |-> activation_time ]
    ELSE LET at == IF rms_db > cfg.threshold THEN t1 ELSE activation_time
         IN  [ ret |-> IF ts_diff_ms(t2, at) <= cfg.fadeout THEN 0 ELSE -1,
               activation_time |-> at ]

\* Recorder r has called recorder_monitor on a chunk of loudness rms_db with
\* the result m.
Called(r, m, rms_db) ==
    [ mon EXCEPT ![r].called = TRUE, ![r].ret = m.ret, ![r].rms = rms_db ]

\* The caller of recorder_monitor has tested the result and goes on.
Returned(r) == [ mon EXCEPT ![r] = NoCall(@.loud_at) ]

\* The same call as a test of the detector observes it: the call read the
\* clock at t2 last, and a chunk above the threshold was evaluated at t1.
Observed(r, m, rms_db, t1, t2) ==
    [ Called(r, m, rms_db) EXCEPT
        ![r].at = t2,
        ![r].loud_at = IF rms_db > cfg.threshold THEN t1 ELSE @ ]

\* recorder_new: rate / 10 frames per read period, eight periods of buffer.
pcm_read_frames == Rate \div 10
rb_nmemb(channels) == channels * pcm_read_frames * 8

Backends == {"alsa", "pipewire", "portaudio"}

\* The recorder after recorder_new, recorder_open and the configuration that
\* recorder_start stores.
\* The verbosity only selects whether messages are printed: it is paired with
\* the split time instead of being crossed with it.
\* supply is the number of samples the capture device has to deliver.
Configs(supply) ==
    { c \in [ backend : Backends, format : {PCM_FORMAT_S16LE}, channels : {1},
              monitor : BOOLEAN, verbose : {0, 1}, threshold : {-50},
              fadeout : {1}, split : {0, 1}, supply : {supply} ] :
        c.verbose = c.split }

Created(configs) ==
    /\ cfg \in configs
    /\ rb = rbuf_init(rb_nmemb(cfg.channels), pcm_format_size(cfg.format, 1))
    /\ mem = [ i \in 0..(rb_nmemb(cfg.channels) - 1) |-> 0 ]
    /\ wtotal = 0
    /\ rtotal = 0
    /\ started = FALSE
    /\ mutex = "free"
    /\ pc_m = "created" /\ pc_c = "none" /\ pc_p = "none"
    /\ samples = 0
    /\ p_samples = 0
    /\ p_n = 0
    /\ bk = "idle"
    /\ w = writer_new
    /\ written = << >>
    /\ committed = << >>
    /\ now = 0
    /\ activation_time = 0
    /\ ts_last_write = 0
    /\ stopped = 0
    /\ at_clear = -1
    /\ log = ""
    /\ mon = [ r \in Recorders |-> NoCall(-1) ]
    /\ AuxIdle

Init == Created(Configs(MaxTotal))

\* pthread_cond_signal(&r->cond): a consumer blocked in pthread_cond_wait is
\* made runnable; without a waiter the signal is lost.
cond_signal_Lost(pc) == pc

cond_signal(pc) == IF pc = "wait" THEN "woken" ELSE pc

\* The clock advances.
Tick ==
    /\ pc_m \notin {"created", "done"}
    /\ now + TickMs <= MaxNow
    /\ now' = now + TickMs
    /\ UNCHANGED << auxVars, rb, mem, wtotal, rtotal, cfg, started, mutex, pc_m, pc_c,
                    pc_p, samples, p_samples, p_n, bk, w, written, committed,
                    activation_time, ts_last_write, stopped, at_clear, log, mon >>

\* ---- recorder_start
\* recorder_start up to pthread_create: the flag is set, the consumer runs.
RecorderStart ==
    /\ pc_m = "created"
    /\ started' = TRUE
    /\ pc_c' = "start"
    /\ pc_m' = "start_backend"
    /\ UNCHANGED << auxVars, rb, mem, wtotal, rtotal, cfg, mutex, pc_p, samples, p_samples,
                    p_n, bk, w, written, committed, now, activation_time,
                    ts_last_write, stopped, at_clear, log, mon >>

\* The message of a backend whose start failed: "Couldn't create ALSA capture
\* thread", "Couldn't start PortAudio stream".
StartError == "Couldn't start"

\* What recorder_start returns once the consumer thread was created.
recorder_start_return == 0

\* r->start(r) begins: the ALSA capture thread is created, the PortAudio
\* stream is started, the PipeWire main loop runs; or the start fails with
\* its message, and r->start returns -1 at once.
BackendStart ==
    /\ pc_m = "start_backend"
    /\ \/ /\ bk' = "active"
          /\ pc_p' = IF cfg.backend = "alsa" THEN "a_top" ELSE "idle"
          /\ pc_m' = "backend"
          /\ log' = log
       \/ /\ cfg.backend \in {"alsa", "portaudio"}
          /\ bk' = "done"
          /\ pc_p' = pc_p
          /\ pc_m' = "lock"
          /\ log' = StartError
    /\ UNCHANGED << auxVars, rb, mem, wtotal, rtotal, cfg, started, mutex, pc_c, samples,
                    p_samples, p_n, w, written, committed, now, activation_time,
                    ts_last_write, stopped, at_clear, mon >>

\* r->start(r) returns: the capture thread was joined, the stream is no
\* longer active, the main loop has quit.
BackendReturn ==
    /\ pc_m = "backend"
    /\ bk = "done"
    /\ pc_m' = "lock"
    /\ UNCHANGED << auxVars, rb, mem, wtotal, rtotal, cfg, started, mutex, pc_c, pc_p,
                    samples, p_samples, p_n, bk, w, written, committed, now,
                    activation_time, ts_last_write, stopped, at_clear, log, mon >>

MainLock ==
    /\ pc_m = "lock"
    /\ mutex = "free"
    /\ mutex' = "main"
    /\ pc_m' = "clear"
    /\ UNCHANGED << auxVars, rb, mem, wtotal, rtotal, cfg, started, pc_c, pc_p, samples,
                    p_samples, p_n, bk, w, written, committed, now, activation_time,
                    ts_last_write, stopped, at_clear, log, mon >>

\* r->started = false; pthread_mutex_unlock.
MainClear ==
    /\ pc_m = "clear"
    /\ started' = FALSE
    /\ at_clear' = IF started THEN wtotal ELSE at_clear
    /\ mutex' = "free"
    /\ pc_m' = "signal"
    /\ UNCHANGED << auxVars, rb, mem, wtotal, rtotal, cfg, pc_c, pc_p, samples, p_samples,
                    p_n, bk, w, written, committed, now, activation_time,
                    ts_last_write, stopped, log, mon >>

MainSignal ==
    /\ pc_m = "signal"
    /\ pc_c' = cond_signal(pc_c)
    /\ pc_m' = "join"
    /\ UNCHANGED << auxVars, rb, mem, wtotal, rtotal, cfg, started, mutex, pc_p, samples,
                    p_samples, p_n, bk, w, written, committed, now, activation_time,
                    ts_last_write, stopped, at_clear, log, mon >>

\* pthread_join returns once the consumer has terminated; recorder_start
\* returns 0.
MainJoin ==
    /\ pc_m = "join"
    /\ pc_c = "done"
    /\ pc_m' = "done"
    /\ UNCHANGED << auxVars, rb, mem, wtotal, rtotal, cfg, started, mutex, pc_c, pc_p,
                    samples, p_samples, p_n, bk, w, written, committed, now,
                    activation_time, ts_last_write, stopped, at_clear, log, mon >>

\* ---- recorder_stop
\* r->stop(r): only the PipeWire backend acts (pw_main_loop_quit); the ALSA
\* and PortAudio stop functions are empty.
backend_stop_Toggle(b) ==
    IF cfg.backend = "pipewire"
    THEN (IF b = "active" THEN "done" ELSE "active")
    ELSE b

backend_stop(b) == IF cfg.backend = "pipewire" /\ b = "active" THEN "done" ELSE b

RecorderStopWithin_CloseWriter(max) ==
    /\ pc_m \in {"backend", "lock", "clear", "signal", "join"}
    /\ stopped < max
    /\ started' = FALSE
    /\ at_clear' = IF started THEN wtotal ELSE at_clear
    /\ bk' = backend_stop(bk)
    /\ stopped' = stopped + 1
    /\ w' = writer_close(w)
    /\ UNCHANGED << auxVars, rb, mem, wtotal, rtotal, cfg, mutex, pc_m, pc_c, pc_p,
                    samples, p_samples, p_n, written, committed, now,
                    activation_time, ts_last_write, log, mon >>

\* recorder_stop, called from the signal handler while recorder_start runs,
\* at most max times.
RecorderStopWithin(max) ==
    /\ pc_m \in {"backend", "lock", "clear", "signal", "join"}
    /\ stopped < max
    /\ started' = FALSE
    /\ at_clear' = IF started THEN wtotal ELSE at_clear
    /\ bk' = backend_stop(bk)
    /\ stopped' = stopped + 1
    /\ UNCHANGED << auxVars, rb, mem, wtotal, rtotal, cfg, mutex, pc_m, pc_c, pc_p,
                    samples, p_samples, p_n, w, written, committed, now,
                    activation_time, ts_last_write, log, mon >>

RecorderStop == RecorderStopWithin(MaxStops)

Overrun == "PCM buffer overrun"

\* ---- alsa_capture_thread (recorder-alsa.c)
\* while (r->started)
AlsaTop ==
    /\ pc_p = "a_top"
    /\ IF started
       THEN pc_p' = "a_lock" /\ bk' = bk
       ELSE pc_p' = "exit" /\ bk' = "done"
    /\ log' = ""
    /\ UNCHANGED << auxVars, rb, mem, wtotal, rtotal, cfg, started, mutex, pc_m, pc_c,
                    samples, p_samples, p_n, w, written, committed, now,
                    activation_time, ts_last_write, stopped, at_clear, mon >>

AlsaLock ==
    /\ pc_p = "a_lock"
    /\ mutex = "free"
    /\ mutex' = "producer"
    /\ pc_p' = "a_query"
    /\ UNCHANGED << auxVars, rb, mem, wtotal, rtotal, cfg, started, pc_m, pc_c, samples,
                    p_samples, p_n, bk, w, written, committed, now,
                    activation_time, ts_last_write, stopped, at_clear, log, mon >>

\* samples = rbuf_write_linear_capacity(&r->rb); unlock.
AlsaQuery ==
    /\ pc_p = "a_query"
    /\ p_n' = rbuf_write_linear_capacity(rb)
    /\ mutex' = "free"
    /\ pc_p' = "a_read"
    /\ UNCHANGED << auxVars, rb, mem, wtotal, rtotal, cfg, started, pc_m, pc_c, samples,
                    p_samples, bk, w, written, committed, now, activation_time,
                    ts_last_write, stopped, at_clear, log, mon >>

AlsaRead_AnyCapacity ==
    /\ pc_p = "a_read"
    /\ LET req == pcm_read_frames
       IN  \E frames \in (IF req = 0 THEN {0} ELSE 1..req) :
           LET n == frames * cfg.channels
           IN  /\ wtotal + n <= cfg.supply
               /\ mem' = Store(ElemOf(rb, rb.tail), n)
               /\ p_n' = n
               /\ \E db \in ChunkDb(n) :
                    LET m == recorder_monitor(db, now, now)
                    IN  /\ activation_time' = m.activation_time
                        /\ mon' = Called("A", m, db)
                        /\ pc_p' = IF m.ret = 0 THEN "a_lock2" ELSE "a_signal"
    /\ UNCHANGED << auxVars, rb, wtotal, rtotal, cfg, started, mutex, pc_m, pc_c,
                    samples, p_samples, bk, w, written, committed, now,
                    ts_last_write, stopped, at_clear, log >>

\* snd_pcm_readi stores up to MIN(frames, pcm_read_frames) frames at rb.tail,
\* then recorder_monitor classifies them.
AlsaRead ==
    /\ pc_p = "a_read"
    /\ LET req == MIN(p_n \div cfg.channels, pcm_read_frames)
       IN  \E frames \in (IF req = 0 THEN {0} ELSE 1..req) :
           LET n == frames * cfg.channels
           IN  /\ wtotal + n <= cfg.supply
               /\ mem' = Store(ElemOf(rb, rb.tail), n)
               /\ p_n' = n
               /\ \E db \in ChunkDb(n) :
                    LET m == recorder_monitor(db, now, now)
                    IN  /\ activation_time' = m.activation_time
                        /\ mon' = Called("A", m, db)
                        /\ pc_p' = IF m.ret = 0 THEN "a_lock2" ELSE "a_signal"
    /\ UNCHANGED << auxVars, rb, wtotal, rtotal, cfg, started, mutex, pc_m, pc_c,
                    samples, p_samples, bk, w, written, committed, now,
                    ts_last_write, stopped, at_clear, log >>

\* snd_pcm_readi fails: -EPIPE and -ESTRPIPE are recovered, -ENODEV ends the
\* thread, any other error is logged; all but -ENODEV continue the loop.
AlsaReadError ==
    /\ pc_p = "a_read"
    /\ \E err \in {"EPIPE", "ENODEV", "OTHER"} :
          /\ pc_p' = IF err = "ENODEV" THEN "exit" ELSE "a_top"
          /\ bk' = IF err = "ENODEV" THEN "done" ELSE bk
          /\ log' = IF err = "EPIPE" /\ cfg.verbose >= 1 THEN Overrun ELSE log
    /\ UNCHANGED << auxVars, rb, mem, wtotal, rtotal, cfg, started, mutex, pc_m, pc_c,
                    samples, p_samples, p_n, w, written, committed, now,
                    activation_time, ts_last_write, stopped, at_clear, mon >>

AlsaLock2 ==
    /\ pc_p = "a_lock2"
    /\ mutex = "free"
    /\ mutex' = "producer"
    /\ pc_p' = "a_commit"
    /\ mon' = Returned("A")
    /\ UNCHANGED << auxVars, rb, mem, wtotal, rtotal, cfg, started, pc_m, pc_c, samples,
                    p_samples, p_n, bk, w, written, committed, now,
                    activation_time, ts_last_write, stopped, at_clear, log >>

\* rbuf_write_linear_commit(&r->rb, frames * r->channels); unlock.
AlsaCommit ==
    /\ pc_p = "a_commit"
    /\ rb' = rbuf_write_linear_commit(rb, p_n)
    /\ committed' = committed \o Cells(mem, ElemOf(rb, rb.tail), p_n)
    /\ wtotal' = wtotal + p_n
    /\ mutex' = "free"
    /\ pc_p' = "a_signal"
    /\ UNCHANGED << auxVars, mem, rtotal, cfg, started, pc_m, pc_c, samples, p_samples,
                    p_n, bk, w, written, now, activation_time, ts_last_write,
                    stopped, at_clear, log, mon >>

AlsaSignal ==
    /\ pc_p = "a_signal"
    /\ pc_c' = cond_signal(pc_c)
    /\ pc_p' = "a_top"
    /\ mon' = Returned("A")
    /\ UNCHANGED << auxVars, rb, mem, wtotal, rtotal, cfg, started, mutex, pc_m, samples,
                    p_samples, p_n, bk, w, written, committed, now,
                    activation_time, ts_last_write, stopped, at_clear, log >>

\* ---- recorder_process, from pa_capture_callback or pw_capture_callback
ProcessEnter_FramesAsSamples ==
    /\ \E frames \in 1..MaxChunkFrames :
       LET n == frames
       IN  /\ wtotal + n <= cfg.supply
           /\ \E db \in ChunkDb(n) :
                LET m == recorder_monitor(db, now, now)
                IN  /\ activation_time' = m.activation_time
                    /\ mon' = Called("A", m, db)
                    /\ p_samples' = n
                    /\ pc_p' = IF m.ret # 0 THEN "cb_ret" ELSE "p_loop"
    /\ p_n' = 0
    /\ log' = ""
    /\ UNCHANGED << auxVars, rb, mem, wtotal, rtotal, cfg, started, mutex, pc_m, pc_c,
                    samples, bk, w, written, committed, now, ts_last_write,
                    stopped, at_clear >>

\* recorder_process is entered with a chunk: it asks recorder_monitor and
\* returns at once unless the chunk is live.
ProcessEnter ==
    /\ \E frames \in 1..MaxChunkFrames :
       LET n == frames * cfg.channels
       IN  /\ wtotal + n <= cfg.supply
           /\ \E db \in ChunkDb(n) :
                LET m == recorder_monitor(db, now, now)
                IN  /\ activation_time' = m.activation_time
                    /\ mon' = Called("A", m, db)
                    /\ p_samples' = n
                    /\ pc_p' = IF m.ret # 0 THEN "cb_ret" ELSE "p_loop"
    /\ p_n' = 0
    /\ log' = ""
    /\ UNCHANGED << auxVars, rb, mem, wtotal, rtotal, cfg, started, mutex, pc_m, pc_c,
                    samples, bk, w, written, committed, now, ts_last_write,
                    stopped, at_clear >>

\* The backend calls back with a chunk.
CallbackChunk ==
    /\ pc_p = "idle"
    /\ bk = "active"
    /\ ProcessEnter

\* while (samples > 0): the chunk is placed, recorder_process returns 0.
ProcessDone ==
    /\ pc_p = "p_loop"
    /\ p_samples = 0
    /\ pc_p' = "cb_ret"
    /\ mon' = Returned("A")
    /\ UNCHANGED << auxVars, rb, mem, wtotal, rtotal, cfg, started, mutex, pc_m, pc_c,
                    samples, p_samples, p_n, bk, w, written, committed, now,
                    activation_time, ts_last_write, stopped, at_clear, log >>

ProcessLock ==
    /\ pc_p = "p_loop"
    /\ p_samples > 0
    /\ mutex = "free"
    /\ mutex' = "producer"
    /\ pc_p' = "p_copy"
    /\ mon' = Returned("A")
    /\ UNCHANGED << auxVars, rb, mem, wtotal, rtotal, cfg, started, pc_m, pc_c, samples,
                    p_samples, p_n, bk, w, written, committed, now,
                    activation_time, ts_last_write, stopped, at_clear, log >>

ProcessCopy_OneSlice ==
    /\ pc_p = "p_copy"
    /\ LET rb_wr_capacity_samples == rbuf_write_linear_capacity(rb)
           batch_samples == MIN(p_samples, rb_wr_capacity_samples)
       IN  IF rb_wr_capacity_samples = 0
           THEN /\ log' = IF cfg.verbose >= 1 THEN Overrun ELSE log
                /\ pc_p' = "cb_ret"
                /\ UNCHANGED << rb, mem, wtotal, committed, p_samples >>
           ELSE /\ mem' = Store(ElemOf(rb, rb.tail), batch_samples)
                /\ rb' = rbuf_write_linear_commit(rb, batch_samples)
                /\ committed' = committed \o Cells(mem', ElemOf(rb, rb.tail), batch_samples)
                /\ wtotal' = wtotal + batch_samples
                /\ p_samples' = p_samples - batch_samples
                /\ pc_p' = IF batch_samples < p_samples THEN "cb_ret" ELSE "p_signal"
                /\ log' = log
    /\ p_n' = p_n + 1
    /\ mutex' = "free"
    /\ UNCHANGED << auxVars, rtotal, cfg, started, pc_m, pc_c, samples, bk, w,
                    written, now, activation_time, ts_last_write, stopped,
                    at_clear, mon >>

ProcessCopy_Retry ==
    /\ pc_p = "p_copy"
    /\ LET rb_wr_capacity_samples == rbuf_write_linear_capacity(rb)
           batch_samples == MIN(p_samples, rb_wr_capacity_samples)
       IN  IF rb_wr_capacity_samples = 0
           THEN /\ log' = IF cfg.verbose >= 1 THEN Overrun ELSE log
                /\ pc_p' = "p_loop"
                /\ UNCHANGED << auxVars, rb, mem, wtotal, committed, p_samples >>
           ELSE /\ mem' = Store(ElemOf(rb, rb.tail), batch_samples)
                /\ rb' = rbuf_write_linear_commit(rb, batch_samples)
                /\ committed' = committed \o Cells(mem', ElemOf(rb, rb.tail), batch_samples)
                /\ wtotal' = wtotal + batch_samples
                /\ p_samples' = p_samples - batch_samples
                /\ pc_p' = "p_signal"
                /\ log' = log
    /\ p_n' = p_n + 1
    /\ mutex' = "free"
    /\ UNCHANGED << auxVars, rtotal, cfg, started, pc_m, pc_c, samples, bk, w, written,
                    now, activation_time, ts_last_write, stopped, at_clear, mon >>

\* One slice under the mutex: the capacity query, then either the overrun
\* break or memcpy, commit and unlock.
ProcessCopy ==
    /\ pc_p = "p_copy"
    /\ LET rb_wr_capacity_samples == rbuf_write_linear_capacity(rb)
           batch_samples == MIN(p_samples, rb_wr_capacity_samples)
       IN  IF rb_wr_capacity_samples = 0
           THEN /\ log' = IF cfg.verbose >= 1 THEN Overrun ELSE log
                /\ pc_p' = "cb_ret"
                /\ UNCHANGED << auxVars, rb, mem, wtotal, committed, p_samples >>
           ELSE /\ mem' = Store(ElemOf(rb, rb.tail), batch_samples)
                /\ rb' = rbuf_write_linear_commit(rb, batch_samples)
                /\ committed' = committed \o Cells(mem', ElemOf(rb, rb.tail), batch_samples)
                /\ wtotal' = wtotal + batch_samples
                /\ p_samples' = p_samples - batch_samples
                /\ pc_p' = "p_signal"
                /\ log' = log
    /\ p_n' = p_n + 1
    /\ mutex' = "free"
    /\ UNCHANGED << auxVars, rtotal, cfg, started, pc_m, pc_c, samples, bk, w, written,
                    now, activation_time, ts_last_write, stopped, at_clear, mon >>

ProcessSignal ==
    /\ pc_p = "p_signal"
    /\ pc_c' = cond_signal(pc_c)
    /\ pc_p' = "p_loop"
    /\ UNCHANGED << auxVars, rb, mem, wtotal, rtotal, cfg, started, mutex, pc_m, samples,
                    p_samples, p_n, bk, w, written, committed, now,
                    activation_time, ts_last_write, stopped, at_clear, log, mon >>

CallbackReturn_Signal ==
    /\ pc_p = "cb_ret"
    /\ pc_p' = "idle"
    /\ pc_c' = cond_signal(pc_c)
    /\ bk' = IF cfg.backend = "portaudio" /\ ~started THEN "done" ELSE bk
    /\ mon' = Returned("A")
    /\ UNCHANGED << auxVars, rb, mem, wtotal, rtotal, cfg, started, mutex, pc_m,
                    samples, p_samples, p_n, w, written, committed, now,
                    activation_time, ts_last_write, stopped, at_clear, log >>

\* The callback returns: pa_capture_callback answers paComplete once the
\* flag is cleared, which ends the stream.
CallbackReturn ==
    /\ pc_p = "cb_ret"
    /\ pc_p' = "idle"
    /\ bk' = IF cfg.backend = "portaudio" /\ ~started THEN "done" ELSE bk
    /\ mon' = Returned("A")
    /\ UNCHANGED << auxVars, rb, mem, wtotal, rtotal, cfg, started, mutex, pc_m, pc_c,
                    samples, p_samples, p_n, w, written, committed, now,
                    activation_time, ts_last_write, stopped, at_clear, log >>

\* The PortAudio stream stops being active on its own.
StreamEnd ==
    /\ cfg.backend = "portaudio"
    /\ pc_p = "idle"
    /\ bk = "active"
    /\ bk' = "done"
    /\ UNCHANGED << auxVars, rb, mem, wtotal, rtotal, cfg, started, mutex, pc_m, pc_c,
                    pc_p, samples, p_samples, p_n, w, written, committed, now,
                    activation_time, ts_last_write, stopped, at_clear, log, mon >>

\* ---- recorder_thread
\* In the monitor mode the consumer returns at once.
ConsumerStart ==
    /\ pc_c = "start"
    /\ pc_c' = IF cfg.monitor THEN "done" ELSE "lock"
    /\ UNCHANGED << auxVars, rb, mem, wtotal, rtotal, cfg, started, mutex, pc_m, pc_p,
                    samples, p_samples, p_n, bk, w, written, committed, now,
                    activation_time, ts_last_write, stopped, at_clear, log, mon >>

ConsumerLock ==
    /\ pc_c = "lock"
    /\ mutex = "free"
    /\ mutex' = "consumer"
    /\ pc_c' = "check"
    /\ UNCHANGED << auxVars, rb, mem, wtotal, rtotal, cfg, started, pc_m, pc_p, samples,
                    p_samples, p_n, bk, w, written, committed, now,
                    activation_time, ts_last_write, stopped, at_clear, log, mon >>

\* while (r->started && (samples = rbuf_read_linear_capacity(&r->rb)) == 0):
\* either pthread_cond_wait, which releases the mutex, or the loop is left and
\* the mutex unlocked.
ConsumerCheck ==
    /\ pc_c = "check"
    /\ samples' = IF started THEN rbuf_read_linear_capacity(rb) ELSE samples
    /\ pc_c' = IF started /\ rbuf_read_linear_capacity(rb) = 0 THEN "wait" ELSE "test"
    /\ mutex' = "free"
    /\ UNCHANGED << auxVars, rb, mem, wtotal, rtotal, cfg, started, pc_m, pc_p,
                    p_samples, p_n, bk, w, written, committed, now,
                    activation_time, ts_last_write, stopped, at_clear, log, mon >>

\* pthread_cond_wait may return without a signal.
ConsumerSpurious ==
    /\ pc_c = "wait"
    /\ pc_c' = "woken"
    /\ UNCHANGED << auxVars, rb, mem, wtotal, rtotal, cfg, started, mutex, pc_m, pc_p,
                    samples, p_samples, p_n, bk, w, written, committed, now,
                    activation_time, ts_last_write, stopped, at_clear, log, mon >>

\* pthread_cond_wait returns with the mutex held again.
ConsumerWake ==
    /\ pc_c = "woken"
    /\ mutex = "free"
    /\ mutex' = "consumer"
    /\ pc_c' = "rotate"
    /\ UNCHANGED << auxVars, rb, mem, wtotal, rtotal, cfg, started, pc_m, pc_p, samples,
                    p_samples, p_n, bk, w, written, committed, now,
                    activation_time, ts_last_write, stopped, at_clear, log, mon >>

\* The split-time check after each wake-up, with the mutex held.
ConsumerRotate ==
    /\ pc_c = "rotate"
    /\ w' = IF /\ cfg.split # 0
               /\ w.opened
               /\ ts_diff_ms(now, ts_last_write) > cfg.split
            THEN writer_close(w)
            ELSE w
    /\ pc_c' = "check"
    /\ UNCHANGED << auxVars, rb, mem, wtotal, rtotal, cfg, started, mutex, pc_m, pc_p,
                    samples, p_samples, p_n, bk, written, committed, now,
                    activation_time, ts_last_write, stopped, at_clear, log, mon >>

\* if (!r->started) break; if (!w->opened) ...
ConsumerTest ==
    /\ pc_c = "test"
    /\ pc_c' = IF ~started THEN "fail" ELSE IF ~w.opened THEN "open" ELSE "write"
    /\ UNCHANGED << auxVars, rb, mem, wtotal, rtotal, cfg, started, mutex, pc_m, pc_p,
                    samples, p_samples, p_n, bk, w, written, committed, now,
                    activation_time, ts_last_write, stopped, at_clear, log, mon >>

\* w->open(w, name): on -1 the consumer leaves through fail.
ConsumerOpen ==
    /\ pc_c = "open"
    /\ \E ok \in BOOLEAN :
          /\ w' = writer_open(w, ok)
          /\ pc_c' = IF ok THEN "write" ELSE "fail"
    /\ UNCHANGED << auxVars, rb, mem, wtotal, rtotal, cfg, started, mutex, pc_m, pc_p,
                    samples, p_samples, p_n, bk, written, committed, now,
                    activation_time, ts_last_write, stopped, at_clear, log, mon >>

\* clock_gettime(&ts_last_write); w->write(w, r->rb.head, samples / channels).
ConsumerWrite ==
    /\ pc_c = "write"
    /\ ts_last_write' = now
    /\ written' = written \o Cells(mem, ElemOf(rb, rb.head),
                                   (samples \div cfg.channels) * cfg.channels)
    /\ pc_c' = "lock2"
    /\ UNCHANGED << auxVars, rb, mem, wtotal, rtotal, cfg, started, mutex, pc_m, pc_p,
                    samples, p_samples, p_n, bk, w, committed, now,
                    activation_time, stopped, at_clear, log, mon >>

ConsumerLock2 ==
    /\ pc_c = "lock2"
    /\ mutex = "free"
    /\ mutex' = "consumer"
    /\ pc_c' = "commit"
    /\ UNCHANGED << auxVars, rb, mem, wtotal, rtotal, cfg, started, pc_m, pc_p, samples,
                    p_samples, p_n, bk, w, written, committed, now,
                    activation_time, ts_last_write, stopped, at_clear, log, mon >>

ConsumerCommit_Current ==
    /\ pc_c = "commit"
    /\ rb' = rbuf_read_linear_commit(rb, rbuf_read_linear_capacity(rb))
    /\ rtotal' = rtotal + rbuf_read_linear_capacity(rb)
    /\ mutex' = "free"
    /\ pc_c' = "lock"
    /\ UNCHANGED << auxVars, mem, wtotal, cfg, started, pc_m, pc_p, samples, p_samples,
                    p_n, bk, w, written, committed, now, activation_time,
                    ts_last_write, stopped, at_clear, log, mon >>

\* rbuf_read_linear_commit(&r->rb, samples); unlock.
ConsumerCommit ==
    /\ pc_c = "commit"
    /\ rb' = rbuf_read_linear_commit(rb, samples)
    /\ rtotal' = rtotal + samples
    /\ mutex' = "free"
    /\ pc_c' = "lock"
    /\ UNCHANGED << auxVars, mem, wtotal, cfg, started, pc_m, pc_p, samples, p_samples,
                    p_n, bk, w, written, committed, now, activation_time,
                    ts_last_write, stopped, at_clear, log, mon >>

\* fail: w->free(w); return NULL.
ConsumerFree ==
    /\ pc_c = "fail"
    /\ w' = writer_free(w)
    /\ pc_c' = "done"
    /\ UNCHANGED << auxVars, rb, mem, wtotal, rtotal, cfg, started, mutex, pc_m, pc_p,
                    samples, p_samples, p_n, bk, written, committed, now,
                    activation_time, ts_last_write, stopped, at_clear, log, mon >>

Main == \/ RecorderStart \/ BackendStart \/ BackendReturn
        \/ MainLock \/ MainClear \/ MainSignal \/ MainJoin

Producer == \/ AlsaTop \/ AlsaLock \/ AlsaQuery \/ AlsaRead \/ AlsaReadError
            \/ AlsaLock2 \/ AlsaCommit \/ AlsaSignal
            \/ CallbackChunk \/ ProcessDone \/ ProcessLock \/ ProcessCopy
            \/ ProcessSignal \/ CallbackReturn \/ StreamEnd

Consumer == \/ ConsumerStart \/ ConsumerLock \/ ConsumerCheck
            \/ ConsumerSpurious \/ ConsumerWake \/ ConsumerRotate
            \/ ConsumerTest \/ ConsumerOpen \/ ConsumerWrite
            \/ ConsumerLock2 \/ ConsumerCommit \/ ConsumerFree

Next == Main \/ Producer \/ Consumer \/ RecorderStop \/ Tick

Spec == Init /\ [][Next]_vars

\* Scheduling: a thread that can take a step eventually takes it, a thread
\* that asks for the mutex gets it if the mutex is released again and again,
\* and the writer's calls return.  Nothing is assumed of the capture device
\* (whether and when it delivers a chunk or fails) nor of spurious wake-ups.
ProducerSteps ==
    \/ AlsaTop \/ AlsaQuery \/ AlsaCommit \/ AlsaSignal
    \/ ProcessDone \/ ProcessCopy \/ ProcessSignal \/ CallbackReturn

ConsumerSteps ==
    \/ ConsumerStart \/ ConsumerCheck \/ ConsumerRotate \/ ConsumerTest
    \/ ConsumerOpen \/ ConsumerWrite \/ ConsumerCommit \/ ConsumerFree

Fairness ==
    /\ WF_vars(Main)
    /\ WF_vars(ProducerSteps)
    /\ WF_vars(ConsumerSteps)
    /\ SF_vars(MainLock)
    /\ SF_vars(AlsaLock \/ AlsaLock2 \/ ProcessLock)
    /\ SF_vars(ConsumerLock \/ ConsumerLock2 \/ ConsumerWake)

InitLive == Created(Configs(LiveTotal))

SpecLive == InitLive /\ [][Next]_vars /\ Fairness

\* The pipeline with one more call of recorder_stop.
NextStop ==
    Main \/ Producer \/ Consumer \/ RecorderStopWithin(MaxStops + 1) \/ Tick

SpecStop == InitLive /\ [][NextStop]_vars

\* The capture device keeps delivering: whenever a chunk can be read or
\* called back again and again, one is, live or not.
Delivery ==
    /\ SF_vars(AlsaRead)
    /\ SF_vars(CallbackChunk)

SpecQuiet == InitLive /\ [][Next]_vars /\ Fairness /\ Delivery


\* ---- the detector called on its own, as test_recorder_monitor does
\* The chunks of the scenario are 100 ms apart, the last one 1100 ms after
\* the start.
ChunkMs == 100
MonitorEnd == 1100
\* The last instant of the runs with two recorders.
TwoEnd == 700
\* The fadeout time the program starts with.
ScenarioFadeout == 500

MonitorConfigs ==
    [ backend : {"none"}, format : {PCM_FORMAT_U8}, channels : {1},
      monitor : BOOLEAN, verbose : {0}, threshold : {-50},
      fadeout : {0, ScenarioFadeout}, split : {0}, supply : {0} ]

InitMonitor == Created(MonitorConfigs)

\* Recorder r, not started, evaluates one chunk.  The clock is read when the
\* chunk is above the threshold and once more for the comparison, and may
\* have advanced in between; in the monitor mode it is not read.  The run
\* ends at the instant `end`.
MonitorChunk(r, end) ==
    /\ pc_m = "created"
    /\ \E db \in ChunkDb(1), t2 \in {now, now + ChunkMs} :
          /\ t2 <= end
          /\ cfg.monitor => t2 = now
          /\ LET m == recorder_monitor(db, now, t2)
             IN  /\ activation_time' = m.activation_time
                 /\ mon' = Observed(r, m, db, now, t2)
          /\ now' = t2
    /\ UNCHANGED << auxVars, rb, mem, wtotal, rtotal, cfg, started, mutex, pc_m, pc_c,
                    pc_p, samples, p_samples, p_n, bk, w, written, committed,
                    ts_last_write, stopped, at_clear, log >>

\* The time to the next chunk passes.
MonitorTick(end) ==
    /\ pc_m = "created"
    /\ now + ChunkMs <= end
    /\ now' = now + ChunkMs
    /\ UNCHANGED << auxVars, rb, mem, wtotal, rtotal, cfg, started, mutex, pc_m, pc_c,
                    pc_p, samples, p_samples, p_n, bk, w, written, committed,
                    activation_time, ts_last_write, stopped, at_clear, log, mon >>

\* One recorder in the process.
NextMonitor == MonitorChunk("A", MonitorEnd) \/ MonitorTick(MonitorEnd)

SpecMonitor == InitMonitor /\ [][NextMonitor]_vars

\* Two recorders in the process.
NextTwo ==
    \/ MonitorChunk("A", TwoEnd)
    \/ MonitorChunk("B", TwoEnd)
    \/ MonitorTick(TwoEnd)

SpecTwo == InitMonitor /\ [][NextTwo]_vars

\* ---- recorder_process called on its own, as test_recorder_process does
\* The samples handed to recorder_process in one run.
ProcessTotal == 12
\* The last instant of the run.
ProcessEnd == 100

ProcessConfigs ==
    [ backend : {"none"}, format : {PCM_FORMAT_U8}, channels : {1},
      monitor : BOOLEAN, verbose : {0}, threshold : {-50},
      fadeout : {0, ProcessEnd}, split : {0}, supply : {ProcessTotal} ]

InitProcess == Created(ProcessConfigs)

\* recorder_process(rec, pcm, n) on a recorder that was not started: no
\* consumer runs.
DirectProcess ==
    /\ pc_m = "created"
    /\ pc_p = "none"
    /\ ProcessEnter

\* recorder_process has returned to the test.
DirectReturn ==
    /\ pc_m = "created"
    /\ pc_p = "cb_ret"
    /\ pc_p' = "none"
    /\ mon' = Returned("A")
    /\ UNCHANGED << auxVars, rb, mem, wtotal, rtotal, cfg, started, mutex, pc_m,
                    pc_c, samples, p_samples, p_n, bk, w, written, committed,
                    now, activation_time, ts_last_write, stopped, at_clear, log >>

\* Between two calls the test takes samples out of the ring buffer.
DirectRead ==
    /\ pc_m = "created"
    /\ pc_p = "none"
    /\ RbufReadCommit

NextProcess ==
    \/ DirectProcess \/ ProcessDone \/ ProcessLock \/ ProcessCopy
    \/ ProcessSignal \/ DirectReturn \/ DirectRead
    \/ MonitorTick(ProcessEnd)

SpecProcess == InitProcess /\ [][NextProcess]_vars

\* ---- the pipeline with two channels
\* The samples the capture device delivers in one run with two channels.
FrameTotal == 18

FrameConfigs ==
    [ backend : Backends, format : {PCM_FORMAT_S16LE}, channels : {2},
      monitor : {FALSE}, verbose : {1}, threshold : {-50}, fadeout : {1},
      split : {0}, supply : {FrameTotal} ]

InitFrames == Created(FrameConfigs)

SpecFrames == InitFrames /\ [][Next]_vars

\* ---- pcm_rms_db
\* The value of the sample of each format that stands for no signal.
ZeroLevel(format) == IF format = PCM_FORMAT_U8 THEN 128 ELSE 0

\* sum2: the sum of the squares of the samples, taken from their zero level.
RECURSIVE Sum2(_, _)
Sum2(buffer, zero) ==
    IF buffer = << >>
    THEN 0
    ELSE (Head(buffer) - zero) * (Head(buffer) - zero) + Sum2(Tail(buffer), zero)

\* sqrt((double)sum2 / samples), kept as its square rounded up to an integer.
\* Over no samples the quotient is 0.0 / 0, NaN: [nan |-> TRUE].
MeanSquare(sum2, nsamples) ==
    IF nsamples = 0
    THEN [ nan |-> TRUE, ms |-> 0 ]
    ELSE [ nan |-> FALSE, ms |-> (sum2 + nsamples - 1) \div nsamples ]

pcm_rms_u8(buffer) == MeanSquare(Sum2(buffer, 128), Len(buffer))

pcm_rms_s16le(buffer) == MeanSquare(Sum2(buffer, 0), Len(buffer))

\* How often y is halved until it is not above x.
RECURSIVE Halvings(_, _)
Halvings(x, y) == IF y <= x THEN 0 ELSE 1 + Halvings(x, y \div 2)

\* 20 * log10(rms / sample_value_max) for rms > 0, rounded towards 0 to a step
\* of 3 dB (a factor of 2 of the mean square) and not above 0.
Decibels(ms, sample_value_max) ==
    -3 * Halvings(ms, sample_value_max * sample_value_max)

\* The result of pcm_rms_db: db, and fault when a NaN or the logarithm of 0
\* was computed on the way.
pcm_rms_db_NoFloor(format, buffer) ==
    LET rms == IF format = PCM_FORMAT_U8
               THEN pcm_rms_u8(buffer)
               ELSE pcm_rms_s16le(buffer)
        sample_value_max == IF format = PCM_FORMAT_U8 THEN 127 ELSE 32767
    IN  IF rms.nan
        THEN [ db |-> FloorDb, fault |-> "NaN" ]
        ELSE IF rms.ms = 0
             THEN [ db |-> FloorDb - 1, fault |-> "log10(0)" ]
             ELSE [ db |-> Decibels(rms.ms, sample_value_max), fault |-> "" ]

\* db = -96.0; with samples > 0 the RMS of the format; if (rms > 0) db = 20 *
\* log10(rms / sample_value_max).
pcm_rms_db(format, buffer) ==
    LET nsamples == Len(buffer)
        rms == IF nsamples > 0
               THEN (IF format = PCM_FORMAT_U8
                     THEN pcm_rms_u8(buffer)
                     ELSE pcm_rms_s16le(buffer))
               ELSE [ nan |-> FALSE, ms |-> 0 ]
        sample_value_max == IF nsamples = 0 THEN 0
                            ELSE IF format = PCM_FORMAT_U8 THEN 127 ELSE 32767
    IN  IF ~rms.nan /\ rms.ms > 0
        THEN [ db |-> Decibels(rms.ms, sample_value_max),
               fault |-> IF rms.nan THEN "NaN" ELSE "" ]
        ELSE [ db |-> FloorDb, fault |-> IF rms.nan THEN "NaN" ELSE "" ]

\* The longest chunk measured, and the sample values it is made of.
MaxSamples == 3
SampleValues(format) ==
    IF format = PCM_FORMAT_U8
    THEN {0, 127, 128, 129, 255}
    ELSE {-16384, -1, 0, 1, 16384}

Chunks(format) ==
    UNION { [ 1..n -> SampleValues(format) ] : n \in 0..MaxSamples }

InitPcm ==
    /\ rb = rbuf_init(1, 1)
    /\ mem = [ i \in 0..0 |-> 0 ]
    /\ wtotal = 0
    /\ rtotal = 0
    /\ RecIdle

\* pcm_rms_db(format, buffer, samples) is called on a chunk.
PcmRmsDb ==
    /\ \E format \in {PCM_FORMAT_U8, PCM_FORMAT_S16LE} :
       \E buffer \in Chunks(format) :
          LET res == pcm_rms_db(format, buffer)
          IN  pcm' = [ format |-> format, buffer |-> buffer,
                       db |-> res.db, fault |-> res.fault ]
    /\ UNCHANGED << rb, mem, wtotal, rtotal, cfg, started, mutex, pc_m, pc_c,
                    pc_p, samples, p_samples, p_n, bk, w, written, committed,
                    now, activation_time, ts_last_write, stopped, at_clear,
                    log, mon, calls, dev >>

NextPcm == PcmRmsDb

SpecPcm == InitPcm /\ [][NextPcm]_vars

\* ---- a writer used on its own, as tc-writer.c does
WriterTypes == {"raw", "wav", "mp3", "opus", "vorbis"}

\* The longest sequence of calls made on one writer.
MaxCalls == 5

IsNull(wr) == "null" \in DOMAIN wr

\* The stream the writer holds: w->f, w->sf, w->fp or w->enc is not NULL.
Handle(wr) ==
    CASE wr.type = "raw" -> wr.f
      [] wr.type = "wav" -> wr.sf
      [] wr.type = "mp3" -> wr.fp
      [] wr.type = "opus" -> wr.enc
      [] wr.type = "vorbis" -> wr.fp

\* The constructor of each variant, and the calls through the function
\* pointers of struct writer.
w_new(type, format, ok) ==
    CASE type = "raw" -> writer_raw_new(format, ok)
      [] type = "wav" -> writer_wav_new(format, ok)
      [] type = "mp3" -> writer_mp3_new(format, ok)
      [] type = "opus" -> writer_opus_new(format, ok)
      [] type = "vorbis" -> writer_vorbis_new(format, ok)

w_open(wr, created) ==
    CASE wr.type = "raw" -> writer_raw_open(wr, created)
      [] wr.type = "wav" -> writer_open(wr, created)
      [] wr.type = "mp3" -> writer_mp3_open(wr, created)
      [] wr.type = "opus" -> writer_opus_open(wr, created)
      [] wr.type = "vorbis" -> writer_vorbis_open(wr, created)

w_close(wr) ==
    CASE wr.type = "raw" -> writer_raw_close(wr)
      [] wr.type = "wav" -> writer_close(wr)
      [] wr.type = "mp3" -> writer_mp3_close(wr)
      [] wr.type = "opus" -> writer_opus_close(wr)
      [] wr.type = "vorbis" -> writer_vorbis_close(wr)

w_free(wr) ==
    CASE wr.type = "raw" -> writer_raw_free(wr)
      [] wr.type = "wav" -> writer_free(wr)
      [] wr.type = "mp3" -> writer_mp3_free(wr)
      [] wr.type = "opus" -> writer_opus_free(wr)
      [] wr.type = "vorbis" -> writer_vorbis_free(wr)

\* The writer the program was asked for, in the format of the recorder, as
\* its constructor returned it: a writer, or NULL.
WriterConfigs ==
    [ backend : {"none"}, format : {PCM_FORMAT_U8, PCM_FORMAT_S16LE},
      channels : {1}, monitor : {FALSE}, verbose : {0}, threshold : {0},
      fadeout : {0}, split : {0}, supply : {0}, writer : WriterTypes ]

InitWriter ==
    /\ cfg \in WriterConfigs
    /\ \E ok \in BOOLEAN : w = w_new(cfg.writer, cfg.format, ok)
    /\ rb = rbuf_init(1, pcm_format_size(cfg.format, 1))
    /\ mem = [ i \in 0..0 |-> 0 ]
    /\ wtotal = 0
    /\ rtotal = 0
    /\ started = FALSE
    /\ mutex = "free"
    /\ pc_m = "created" /\ pc_c = "none" /\ pc_p = "none"
    /\ samples = 0
    /\ p_samples = 0
    /\ p_n = 0
    /\ bk = "idle"
    /\ written = << >>
    /\ committed = << >>
    /\ now = 0
    /\ activation_time = 0
    /\ ts_last_write = 0
    /\ stopped = 0
    /\ at_clear = -1
    /\ log = ""
    /\ mon = [ r \in Recorders |-> NoCall(-1) ]
    /\ calls = << >>
    /\ dev = "none"
    /\ pcm = NoChunk

\* What a call on the writer leaves alone.
notWriterVars ==
    << rb, mem, wtotal, rtotal, cfg, started, mutex, pc_m, pc_c, pc_p, samples,
       p_samples, p_n, bk, committed, now, activation_time, ts_last_write,
       stopped, at_clear, mon, dev, pcm >>

\* A call can be made: there is a writer, it was not freed, and the process
\* did not crash.
Callable ==
    /\ ~IsNull(w)
    /\ ~w.freed
    /\ log = ""
    /\ Len(calls) < MaxCalls

Crash == "SIGSEGV"

\* w->open(w, pathname): the file is created, or fopen, sf_open or
\* ope_encoder_create_file fails.
WriterOpen(created) ==
    /\ Callable
    /\ w' = w_open(w, created)
    /\ calls' = Append(calls, IF created THEN "open:created" ELSE "open:failed")
    /\ UNCHANGED << notWriterVars, written, log >>

\* w->write(w, buffer, 1), called as recorder_thread and the tests call it, on
\* a writer whose opened flag is set.  Without a stream (fwrite on a NULL
\* FILE) the behaviour is undefined: the call crashes or returns.
WriterWrite ==
    /\ Callable
    /\ w.opened
    /\ IF Handle(w)
       THEN /\ written' = Append(written, Len(written) + 1)
            /\ log' = log
       ELSE /\ written' = written
            /\ log' \in {Crash, log}
    /\ calls' = Append(calls, "write")
    /\ UNCHANGED << notWriterVars, w >>

WriterClose ==
    /\ Callable
    /\ w' = w_close(w)
    /\ calls' = Append(calls, "close")
    /\ UNCHANGED << notWriterVars, written, log >>

WriterFree ==
    /\ Callable
    /\ w' = w_free(w)
    /\ calls' = Append(calls, "free")
    /\ UNCHANGED << notWriterVars, written, log >>

NextWriter ==
    \/ \E created \in BOOLEAN : WriterOpen(created)
    \/ WriterWrite
    \/ WriterClose
    \/ WriterFree

SpecWriter == InitWriter /\ [][NextWriter]_vars

\* ---- recorder_open and recorder_free
\* The resources of a backend are objects, numbered in the order they are
\* acquired; rel counts the release calls made on an object (snd_pcm_close,
\* Pa_CloseStream, Pa_Terminate, pw_stream_destroy, pw_main_loop_destroy,
\* pw_deinit, free).
Obj(kind) == [ kind |-> kind, rel |-> 0 ]

Acquire(d, kind) == [ d EXCEPT !.objs = Append(@, Obj(kind)) ]

\* reused: an object that was released was released again, or a field of
\* it was read.
Release(d, id) ==
    [ d EXCEPT !.objs[id].rel = @ + 1,
               !.reused = @ \/ d.objs[id].rel > 0 ]

\* recorder_new: r->r is NULL (0).  stream and loop are the fields of struct
\* recorder_pw, ret the value the last recorder_open returned.
recorder_new ==
    [ r |-> 0, objs |-> << >>, stream |-> 0, loop |-> 0, ret |-> 0,
      opens |-> 0, freed |-> FALSE, reused |-> FALSE ]

recorder_alsa_new == recorder_new

\* if (pcm != NULL) snd_pcm_close(pcm); r->r is left as it is.
recorder_alsa_free(d) == IF d.r # 0 THEN Release(d, d.r) ELSE d

\* outcome: "device" (snd_pcm_open fails), "params" (pcm_set_hw_params or
\* snd_pcm_prepare fails) or "ok".
recorder_alsa_open(d, outcome) ==
    IF outcome = "device"
    THEN [ recorder_alsa_free(d) EXCEPT !.ret = -1 ]
    ELSE LET a == [ Acquire(d, "pcm") EXCEPT !.r = Len(d.objs) + 1 ]
         IN  IF outcome = "params"
             THEN [ recorder_alsa_free(a) EXCEPT !.ret = -1 ]
             ELSE [ a EXCEPT !.ret = 0 ]

\* recorder_pa_new: Pa_Initialize; the library is object 1.
recorder_pa_new == Acquire(recorder_new, "lib")

\* Pa_StopStream and Pa_CloseStream if r->r is not NULL, then Pa_Terminate.
recorder_pa_free(d) ==
    Release(IF d.r # 0 THEN Release(d, d.r) ELSE d, 1)

\* outcome: "device" (Pa_GetDeviceInfo returns NULL), "params" (Pa_OpenStream
\* fails) or "ok".
recorder_pa_open(d, outcome) ==
    IF outcome \in {"device", "params"}
    THEN [ recorder_pa_free(d) EXCEPT !.ret = -1 ]
    ELSE [ Acquire(d, "stream") EXCEPT !.r = Len(d.objs) + 1, !.ret = 0 ]

\* recorder_pw_new: r->r = calloc (object 1), pw_init (object 2),
\* rr->loop = pw_main_loop_new (object 3).
recorder_pw_new ==
    [ Acquire(Acquire(Acquire(recorder_new, "rr"), "lib"), "loop")
        EXCEPT !.r = 1, !.loop = 3 ]

\* rr = r->r; the stream and the loop are destroyed if set, then pw_deinit
\* and free(rr).  The fields of rr are read whether rr was freed or not.
recorder_pw_free(d) ==
    LET rr == [ d EXCEPT !.reused = @ \/ d.objs[d.r].rel > 0 ]
        s  == IF rr.stream # 0 THEN Release(rr, rr.stream) ELSE rr
        l  == IF s.loop # 0 THEN Release(s, s.loop) ELSE s
    IN  Release(Release(l, 2), d.r)

\* outcome: "params" (pw_stream_connect fails) or "ok"; the stream is made
\* with pw_stream_new_simple and stored in rr->stream before.
recorder_pw_open(d, outcome) ==
    LET rr == [ d EXCEPT !.reused = @ \/ d.objs[d.r].rel > 0 ]
        a  == [ Acquire(rr, "stream") EXCEPT !.stream = Len(d.objs) + 1 ]
    IN  IF outcome = "params"
        THEN [ recorder_pw_free(a) EXCEPT !.ret = -1 ]
        ELSE [ a EXCEPT !.ret = 0 ]

\* The ways recorder_open can end for a backend.
Outcomes(backend) ==
    IF backend = "pipewire" THEN {"params", "ok"} ELSE {"device", "params", "ok"}

r_new(backend) ==
    CASE backend = "alsa" -> recorder_alsa_new
      [] backend = "portaudio" -> recorder_pa_new
      [] backend = "pipewire" -> recorder_pw_new

\* recorder_open: r->open(r, device).
recorder_open(d, outcome) ==
    LET o == CASE cfg.backend = "alsa" -> recorder_alsa_open(d, outcome)
               [] cfg.backend = "portaudio" -> recorder_pa_open(d, outcome)
               [] cfg.backend = "pipewire" -> recorder_pw_open(d, outcome)
    IN  [ o EXCEPT !.opens = @ + 1 ]

\* recorder_free: r->free(r), then the recorder itself is released.
recorder_free(d) ==
    LET f == CASE cfg.backend = "alsa" -> recorder_alsa_free(d)
               [] cfg.backend = "portaudio" -> recorder_pa_free(d)
               [] cfg.backend = "pipewire" -> recorder_pw_free(d)
    IN  [ f EXCEPT !.freed = TRUE ]

\* The number of recorder_open calls made on one recorder.
MaxOpens == 2

OpenConfigs ==
    [ backend : Backends, format : {PCM_FORMAT_U8, PCM_FORMAT_S16LE},
      channels : {1, 2}, monitor : {FALSE}, verbose : {0}, threshold : {0},
      fadeout : {0}, split : {0}, supply : {0} ]

InitOpen ==
    /\ cfg \in OpenConfigs
    /\ dev = r_new(cfg.backend)
    /\ rb = rbuf_init(rb_nmemb(cfg.channels), pcm_format_size(cfg.format, 1))
    /\ mem = [ i \in 0..(rb_nmemb(cfg.channels) - 1) |-> 0 ]
    /\ wtotal = 0
    /\ rtotal = 0
    /\ started = FALSE
    /\ mutex = "free"
    /\ pc_m = "created" /\ pc_c = "none" /\ pc_p = "none"
    /\ samples = 0
    /\ p_samples = 0
    /\ p_n = 0
    /\ bk = "idle"
    /\ w = writer_new
    /\ written = << >>
    /\ committed = << >>
    /\ now = 0
    /\ activation_time = 0
    /\ ts_last_write = 0
    /\ stopped = 0
    /\ at_clear = -1
    /\ log = ""
    /\ mon = [ r \in Recorders |-> NoCall(-1) ]
    /\ calls = << >>
    /\ pcm = NoChunk

\* The process goes on after the recorder's calls so far: the recorder was
\* not freed and the process did not crash.
Usable == ~dev.freed /\ log = ""

\* What a call leaves.  A second snd_pcm_close on a PCM handle and a use of
\* the freed struct recorder_pw are undefined behaviour: the call goes on
\* with the stale values, or the process crashes.  A second Pa_Terminate
\* returns an error.
AfterCall(d) ==
    \/ dev' = d /\ log' = log
    \/ /\ d.reused /\ ~dev.reused
       /\ cfg.backend # "portaudio"
       /\ dev' = [ dev EXCEPT !.reused = TRUE ]
       /\ log' = Crash

\* recorder_open(r, device), the first call or a call after a failed one.
RecorderOpen(outcome) ==
    /\ Usable
    /\ dev.opens < MaxOpens
    /\ dev.opens = 0 \/ dev.ret = -1
    /\ outcome \in Outcomes(cfg.backend)
    /\ AfterCall(recorder_open(dev, outcome))
    /\ UNCHANGED << rb, mem, wtotal, rtotal, cfg, started, mutex, pc_m, pc_c,
                    pc_p, samples, p_samples, p_n, bk, w, written, committed,
                    now, activation_time, ts_last_write, stopped, at_clear,
                    mon, calls, pcm >>

RecorderFree ==
    /\ Usable
    /\ AfterCall(recorder_free(dev))
    /\ UNCHANGED << rb, mem, wtotal, rtotal, cfg, started, mutex, pc_m, pc_c,
                    pc_p, samples, p_samples, p_n, bk, w, written, committed,
                    now, activation_time, ts_last_write, stopped, at_clear,
                    mon, calls, pcm >>

NextOpen ==
    \/ \E outcome \in {"device", "params", "ok"} : RecorderOpen(outcome)
    \/ RecorderFree

SpecOpen == InitOpen /\ [][NextOpen]_vars


\* --------------------------------------------------------------- pipeline
IsPrefix(s, t) == Len(s) <= Len(t) /\ \A i \in 1..Len(s) : s[i] = t[i]

\* C1: in every interleaving of the producer with the consumer, the samples
\* handed to the writer are, in order and unchanged, a prefix of the samples
\* the producer committed; no committed sample is duplicated, reordered or
\* overwritten before the consumer has committed it as read.
C1_WrittenPrefixOfCommitted ==
    /\ IsPrefix(written, committed)
    /\ Len(written) \in {rtotal, rtotal + samples}
    /\ \A k \in 1..rb.used :
          mem[(ElemOf(rb, rb.head) + k - 1) % rb.nmemb] = rtotal + k

\* The consumer has written samples taken from after the wrap point.
C1_Witness ==
    /\ Len(written) > rb.nmemb
    /\ written = committed
    /\ pc_c = "lock2"

\* What one pass of recorder_process through its loop body does: with no
\* linear write capacity it drops the rest of the chunk and returns, warning
\* only when verbose; otherwise it commits MIN(samples, capacity) samples.
C2_Slice ==
    (pc_p = "p_copy" /\ pc_p' # "p_copy") =>
        LET cap == rbuf_write_linear_capacity(rb)
        IN  IF cap = 0
            THEN /\ pc_p' = "cb_ret"
                 /\ rb' = rb /\ wtotal' = wtotal /\ committed' = committed
                 /\ (log' = Overrun) <=> (cfg.verbose >= 1)
            ELSE /\ pc_p' = "p_signal"
                 /\ wtotal' - wtotal = MIN(p_samples, cap)
                 /\ wtotal' - wtotal >= 1
                 /\ rb'.used = rb.used + (wtotal' - wtotal)
                 /\ p_samples' = p_samples - (wtotal' - wtotal)
                 /\ log' = ""

\* The producer is never blocked on ring-buffer space, and a chunk of n samples
\* takes at most n + 1 passes.
C2_Bounded ==
    /\ pc_p \notin {"wait", "woken"}
    /\ pc_p \in {"p_loop", "p_copy", "p_signal", "cb_ret"} =>
          p_n + p_samples <= MaxChunkFrames * cfg.channels + 1

\* C2: recorder_process never waits for ring-buffer space: each slice is no
\* larger than the linear write capacity queried for it, a query of zero drops
\* the rest of the chunk (warning only when verbose >= 1), and the loop ends
\* after a bounded number of passes whatever the consumer does.
C2_NeverWaits == []C2_Bounded /\ [][C2_Slice]_vars

\* A chunk that did not fit: a first slice was committed, the second query
\* returned zero, the rest was dropped with a warning.
C2_Witness ==
    /\ pc_p = "cb_ret"
    /\ p_n = 2
    /\ p_samples > 0
    /\ log = Overrun
    /\ rb.used = rb.nmemb

\* C3: once the backend's start operation has returned, recorder_start clears
\* the flag and signals, the consumer - blocked in the wait, about to wait or
\* in a write - terminates, and recorder_start's join completes.
C3_ShutdownCompletes ==
    (pc_m = "lock") ~> (pc_c = "done" /\ pc_m = "done" /\ ~started)

\* The flag was cleared while the consumer is blocked on an empty buffer, and
\* nobody called recorder_stop.
C3_Witness ==
    /\ pc_m = "signal"
    /\ pc_c = "wait"
    /\ rb.used = 0
    /\ wtotal > 0
    /\ stopped = 0

\* Every step the threads can take on their own: all but the capture device
\* delivering a chunk or failing, a spurious wake-up, the clock and another
\* recorder_stop.
WithoutDevice ==
    \/ Main
    \/ ProducerSteps \/ AlsaLock \/ AlsaLock2 \/ ProcessLock
    \/ ConsumerSteps \/ ConsumerLock \/ ConsumerLock2 \/ ConsumerWake

\* C4: recorder_stop flips the flag and wakes a consumer that is blocked on
\* the condition variable with an empty buffer: after the call the consumer
\* gets to observe the termination without a further chunk from the producer,
\* that is, while it is still blocked the threads can go on by themselves.
C4_StopWakesWithoutChunk ==
    (stopped > 0 /\ pc_c = "wait" /\ rb.used = 0) =>
        (~started /\ ENABLED WithoutDevice)

\* C5: when the producer has ended and the consumer terminates, every sample
\* that was committed before the flag was cleared has been handed to the
\* writer (no open having failed).
C5_DrainedBeforeExit ==
    (pc_c = "done" /\ at_clear >= 0 /\ w.err = 0) => Len(written) >= at_clear

\* C6: when the writer's open has failed and the consumer has terminated, the
\* writer is finalised and the pipeline stops: the flag is cleared or the
\* backend is stopped.
C6_OpenFailureStops ==
    (pc_c = "done" /\ w.err # 0) =>
        /\ ~w.opened /\ ~w.sf
        /\ ~started \/ bk = "done"

\* ------------------------------------------------------------ ring buffer
\* C7: after any sequence of valid linear commits, used equals the elements
\* committed for write minus those committed for read, and 0 <= used <= nmemb.
C7_UsedIsDifference ==
    /\ rb.used = wtotal - rtotal
    /\ 0 <= rb.used
    /\ rb.used <= rb.nmemb

C7_Witness ==
    /\ wtotal > rb.nmemb
    /\ rtotal > 0
    /\ rb.used > 0
    /\ rb.used < rb.nmemb

\* C8: head and tail are at element boundaries inside [begin, end); a cursor
\* that reaches end is reset to begin by the same commit.
C8_CursorsInside ==
    /\ rb.begin <= rb.head /\ rb.head < rb.end
    /\ rb.begin <= rb.tail /\ rb.tail < rb.end
    /\ (rb.head - rb.begin) % rb.size = 0
    /\ (rb.tail - rb.begin) % rb.size = 0

C8_Witness ==
    /\ rb.size = 2
    /\ wtotal = rb.nmemb
    /\ rb.tail = rb.begin
    /\ rb.head # rb.begin

\* C9: (tail - head) in elements, modulo nmemb, equals used modulo nmemb;
\* used = 0 implies head = tail; head = tail only when used is 0 or nmemb.
C9_CursorDistance ==
    /\ (ElemOf(rb, rb.tail) - ElemOf(rb, rb.head)) % rb.nmemb = rb.used % rb.nmemb
    /\ rb.used = 0 => rb.head = rb.tail
    /\ rb.head = rb.tail => rb.used \in {0, rb.nmemb}

C9_Witness ==
    /\ rb.head = rb.tail
    /\ rb.head # rb.begin
    /\ rb.used = rb.nmemb
    /\ rb.nmemb > 1

\* C10: the read capacity is min(used, elements from head to end), the write
\* capacity is min(nmemb - used, elements from tail to end); the read capacity
\* is 0 exactly when the buffer is empty, the write capacity exactly when full.
C10_LinearCapacities ==
    /\ rbuf_read_linear_capacity(rb)
          = MIN(rb.used, (rb.end - rb.head) \div rb.size)
    /\ rbuf_write_linear_capacity(rb)
          = MIN(rb.nmemb - rb.used, (rb.end - rb.tail) \div rb.size)
    /\ rbuf_read_linear_capacity(rb) = 0 <=> rb.used = 0
    /\ rbuf_write_linear_capacity(rb) = 0 <=> rb.used = rb.nmemb

C10_Witness ==
    /\ rb.used = 0
    /\ rb.head = rb.tail
    /\ rb.head # rb.begin
    /\ rbuf_write_linear_capacity(rb) = (rb.end - rb.tail) \div rb.size
    /\ rbuf_write_linear_capacity(rb) < rb.nmemb
    /\ rbuf_read_linear_capacity(rb) = 0

\* C11 as stated: at every step of every valid commit sequence
\* rbuf_read_linear_capacity() + rbuf_write_linear_capacity() >= nmemb - used.
C11_CapacitySum ==
    rbuf_read_linear_capacity(rb) + rbuf_write_linear_capacity(rb)
        >= rb.nmemb - rb.used

\* C11 amended: the sum of the two linear capacities never exceeds nmemb, and
\* it is at least nmemb - used whenever the free space is one contiguous run
\* (head at begin, tail before head, or the buffer full); the write capacity
\* is then exactly nmemb - used.
C11_CapacitySumContiguous ==
    /\ rbuf_read_linear_capacity(rb) + rbuf_write_linear_capacity(rb) <= rb.nmemb
    /\ (rb.head = rb.begin \/ rb.tail < rb.head \/ rb.used = rb.nmemb) =>
          /\ rbuf_write_linear_capacity(rb) = rb.nmemb - rb.used
          /\ rbuf_read_linear_capacity(rb) + rbuf_write_linear_capacity(rb)
                >= rb.nmemb - rb.used

C11_Witness ==
    /\ rb.tail < rb.head
    /\ rb.tail # rb.begin
    /\ rb.used < rb.nmemb
    /\ rbuf_write_linear_capacity(rb) = rb.nmemb - rb.used
    /\ rbuf_read_linear_capacity(rb) < rb.used

\* C12: with the writer storing at tail before each write commit and the
\* reader taking from head before each read commit, the elements read are, in
\* order, the first rtotal elements written: nothing skipped, nothing
\* repeated, for every split into linear commits.
C12_ContentRoundTrip ==
    /\ Len(committed) = wtotal
    /\ committed = [ k \in 1..wtotal |-> k ]
    /\ Len(written) = rtotal
    /\ IsPrefix(written, committed)

\* Everything written was read back, through more than one wrap, the last
\* commits split by the wrap point.
C12_Witness ==
    /\ rb.nmemb >= 3
    /\ Len(written) > 2 * rb.nmemb
    /\ written = committed
    /\ rb.head # rb.begin

\* C13: from a fresh buffer, once N elements were committed for write and N
\* for read, N a multiple of nmemb, head = tail = begin and used = 0.
C13_CursorRoundTrip ==
    (wtotal = rtotal /\ wtotal % rb.nmemb = 0) =>
        /\ rb.head = rb.begin
        /\ rb.tail = rb.begin
        /\ rb.used = 0

C13_Witness ==
    /\ rb.nmemb >= 3
    /\ wtotal = 2 * rb.nmemb
    /\ rtotal = wtotal
    /\ rb.head = rb.begin

\* C14 as stated: in the buffer of 1024 elements, after write commits of 512
\* and 256 used is 768 and the read capacity 768; after read commits of 512
\* and 256 the buffer is empty with head = tail = begin.
C14_ScenarioBackAtBegin ==
    /\ (wtotal = 768 /\ rtotal = 0) =>
          rb.used = 768 /\ rbuf_read_linear_capacity(rb) = 768
    /\ (wtotal = 768 /\ rtotal = 768) =>
          rb.used = 0 /\ rb.head = rb.tail /\ rb.head = rb.begin

\* C14 amended: after the two read commits the buffer is empty with
\* head = tail at element 768, not at begin: the read capacity is 0 and the
\* write capacity the 256 elements up to end, as the test asserts.
C14_ScenarioAtElement768 ==
    /\ (wtotal = 768 /\ rtotal = 0) =>
          rb.used = 768 /\ rbuf_read_linear_capacity(rb) = 768
    /\ (wtotal = 768 /\ rtotal = 768) =>
          /\ rb.used = 0
          /\ rb.head = rb.tail
          /\ rb.head = rb.begin + 768 * rb.size
          /\ rbuf_read_linear_capacity(rb) = 0
          /\ rbuf_write_linear_capacity(rb) = 256

C14_Witness ==
    /\ wtotal = 768
    /\ rtotal = 768
    /\ rb.used = 0
    /\ written = committed

\* C15: a commit of more elements than the linear capacity of its side is
\* rejected: no call leaves used above nmemb, used wrapped below zero, or a
\* cursor at or beyond end.
C15_OverCommitRejected ==
    /\ rb.used <= rb.nmemb
    /\ rb.used >= 0
    /\ rb.head < rb.end
    /\ rb.tail < rb.end

\* --------------------------------------------------------------- detector
\* C16: with the monitor mode off, recorder_monitor returns 0 if and only if
\* now - last_loud_at <= fadeout, the boundary included, where last_loud_at
\* is the evaluation time of the most recent chunk above the threshold, this
\* one included; it returns -1 otherwise.  With a fadeout of 500 ms the
\* silent chunks up to 500 ms after the loud one are live, the one 600 ms
\* after it is not.
C16_LiveWithinFadeout ==
    LET c == mon["A"]
    IN  (c.called /\ ~cfg.monitor /\ c.loud_at >= 0) =>
            /\ c.ret \in {0, -1}
            /\ c.ret = 0 <=> c.at - c.loud_at <= cfg.fadeout

\* A silent chunk evaluated exactly one fadeout time after the loud one.
C16_Witness ==
    /\ mon["A"].called
    /\ ~cfg.monitor
    /\ cfg.fadeout = ScenarioFadeout
    /\ mon["A"].rms = FloorDb
    /\ mon["A"].loud_at >= 0
    /\ mon["A"].at - mon["A"].loud_at = cfg.fadeout
    /\ mon["A"].ret = 0

\* A step that changes the activation timestamp is a call of
\* recorder_monitor, outside the monitor mode, on a chunk whose RMS is
\* strictly above the threshold.
C17_Step ==
    activation_time' # activation_time =>
        /\ pc_p \in {"a_read", "idle"}
        /\ pc_p' # pc_p
        /\ ~mon["A"].called
        /\ mon'["A"].called
        /\ mon'["A"].rms > cfg.threshold
        /\ ~cfg.monitor
        /\ activation_time' = now

\* C17: the activation timestamp is changed only by recorder_monitor and only
\* for a chunk whose RMS is strictly greater than the threshold; a chunk at
\* the threshold, a chunk below it, a chunk in the monitor mode and every
\* other operation leave it unchanged.
C17_OnlyLoudChunks == [][C17_Step]_vars

\* A chunk exactly at the threshold was evaluated after the fadeout time: it
\* is not live and the timestamp is the initial one.
C17_Witness ==
    /\ mon["A"].called
    /\ mon["A"].rms = cfg.threshold
    /\ mon["A"].ret = -1
    /\ now > 0
    /\ activation_time = 0

\* The activation time recorder r has by its own chunks alone.
OwnActivation(r) == IF mon[r].loud_at >= 0 THEN mon[r].loud_at ELSE 0

\* C18: recorder instances are independent: what recorder_monitor returns to
\* a recorder depends on that recorder's own chunks only, whatever chunks the
\* other recorder of the process has evaluated.
C18_Independent ==
    \A r \in Recorders :
        (mon[r].called /\ ~cfg.monitor) =>
            (mon[r].ret = 0 <=> mon[r].at - OwnActivation(r) <= cfg.fadeout)

\* C19: in the monitor mode recorder_monitor returns -2 whatever the
\* loudness, nothing is committed to the ring buffer, and the consumer
\* returns without calling the writer's open or write.
C19_MonitorOnly ==
    cfg.monitor =>
        /\ mon["A"].called => mon["A"].ret = -2
        /\ rb.used = 0 /\ wtotal = 0 /\ committed = << >>
        /\ pc_p \notin {"a_lock2", "a_commit", "p_loop", "p_copy", "p_signal"}
        /\ pc_c \in {"none", "start", "done"}
        /\ ~w.opened /\ ~w.sf /\ w.err = 0
        /\ written = << >>

\* A loud chunk was captured in the monitor mode after the consumer returned.
C19_Witness ==
    /\ cfg.monitor
    /\ mon["A"].called
    /\ mon["A"].rms > cfg.threshold
    /\ mon["A"].ret = -2
    /\ pc_c = "done"
    /\ rb.used = 0

\* --------------------------------------------------------------- rotation
\* What the rotation rule asks of the consumer's decision before a write: a
\* file is opened only with data to write and no file open, and the write
\* goes to the file that is open only if the split time has not elapsed since
\* the last write.
C20_Step ==
    /\ (pc_c = "test" /\ pc_c' = "open") => (samples > 0 /\ ~w.opened)
    /\ (pc_c = "test" /\ pc_c' = "write") =>
          /\ w.opened
          /\ cfg.split > 0 => ts_diff_ms(now, ts_last_write) <= cfg.split

\* C20: the consumer opens a new file exactly when it has data to write and
\* no file is open; a file stays open across writes whose gaps do not exceed
\* the split interval, and once the split interval (> 0) has elapsed since
\* the last write the file is closed and the next write goes to a new file.
C20_RotationRule == [][C20_Step]_vars

\* ---- C21
\* A file is open and the last write is longer ago than the split time.
Overdue ==
    /\ cfg.split > 0
    /\ w.opened
    /\ ts_diff_ms(now, ts_last_write) > cfg.split

\* C21: with a split time configured and a file open, once no write happened
\* for longer than the split time and the backend keeps delivering chunks,
\* the file is eventually closed (or written again, or the device has
\* nothing left to deliver), whichever backend feeds the recorder.
C21_ProactiveClose == Overdue ~> (~Overdue \/ wtotal = cfg.supply)

\* The same for the ALSA capture loop alone.
C21_AlsaLoop ==
    (Overdue /\ cfg.backend = "alsa") ~> (~Overdue \/ wtotal = cfg.supply)

\* ---- C22
\* C22: when recorder_thread has terminated outside the monitor mode (after
\* a stop, after the backend ended, or after a failed open) the writer was
\* released with its stream closed: no file is left open; and a stream
\* handle is held exactly while the writer is opened.
C22_ClosedAtExit ==
    /\ w.sf = w.opened
    /\ (pc_c = "done" /\ ~cfg.monitor) => (w.freed /\ ~w.opened /\ ~w.sf)

\* The consumer has terminated after it wrote to a file.
C22_Witness ==
    /\ pc_c = "done" /\ ~cfg.monitor
    /\ Len(written) > 0
    /\ w.freed /\ w.err = 0

\* ---- C23
C23_Step ==
    /\ ~IsNull(w') =>
          /\ w'.streams = (IF Handle(w') THEN 1 ELSE 0)
          /\ w'.freed => w'.streams = 0
    /\ \A created \in BOOLEAN :
          WriterOpen(created) => w'.streams = (IF created THEN 1 ELSE 0)

\* C23: for every writer variant the writer has at most one stream open,
\* the one it holds the handle of; an open closes the stream that is open
\* before it creates the next one, so that after it exactly the stream it
\* created is open; and a freed writer has no stream open.
C23_OneStream == [][C23_Step]_vars

\* A writer was opened, written, closed and opened again.
C23_Witness ==
    /\ calls = << "open:created", "write", "close", "open:created" >>
    /\ w.type = "mp3"
    /\ w.streams = 1

\* ---- C24
\* No stream is open by the history of the calls: no open was called, or the
\* last call was a close.
Closed ==
    \/ \A i \in 1..Len(calls) : calls[i] \notin {"open:created", "open:failed"}
    \/ (calls # << >> /\ calls[Len(calls)] = "close")

\* C24: for every writer variant a close on a writer that is closed or was
\* never opened changes nothing: no field of the writer, no stream count,
\* nothing written.
C24_CloseIdempotent ==
    [][(WriterClose /\ Closed) => (w' = w /\ written' = written /\ log' = log)]_vars

\* A writer was closed twice after it was written.
C24_Witness ==
    /\ calls = << "open:created", "write", "close", "close" >>
    /\ w.type = "vorbis"

\* ---- C25
\* C25: for every writer variant open returns a value other than -1 and sets
\* opened exactly when the file was created, and returns -1 with opened
\* false and no stream held when it was not.
C25_OpenResult ==
    [][\A created \in BOOLEAN :
          WriterOpen(created) =>
             IF created
             THEN w'.err # -1 /\ w'.opened /\ Handle(w')
             ELSE w'.err = -1 /\ ~w'.opened /\ ~Handle(w')]_vars

\* The same without the raw writer.
C25_OpenResultEncoded ==
    [][\A created \in BOOLEAN :
          (WriterOpen(created) /\ w.type # "raw") =>
             IF created
             THEN w'.err # -1 /\ w'.opened /\ Handle(w')
             ELSE w'.err = -1 /\ ~w'.opened /\ ~Handle(w')]_vars

\* ---- C26
Encoded == {"mp3", "opus", "vorbis"}

\* The formats a writer variant can encode.
Supports(type, format) == type \in Encoded => format = PCM_FORMAT_S16LE

\* C26: the constructors of the MP3, Opus and Vorbis writers return NULL for
\* U8, and a closed writer for S16LE when their allocations succeed; the raw
\* and WAV constructors return a closed writer for both formats; and no
\* write is made with a format the writer cannot encode.
C26_FormatAtConstruction ==
    /\ \A type \in WriterTypes, format \in {PCM_FORMAT_U8, PCM_FORMAT_S16LE} :
          /\ IsNull(w_new(type, format, FALSE))
          /\ IF Supports(type, format)
             THEN /\ ~IsNull(w_new(type, format, TRUE))
                  /\ ~w_new(type, format, TRUE).opened
                  /\ w_new(type, format, TRUE).type = type
             ELSE IsNull(w_new(type, format, TRUE))
    /\ ~Supports(cfg.writer, cfg.format) => IsNull(w)
    /\ (~IsNull(w) /\ calls = << >>) => (~w.opened /\ ~Handle(w))
    /\ written # << >> => Supports(cfg.writer, cfg.format)

\* The Opus constructor returned a writer for S16LE, which was opened and
\* written.
C26_Witness ==
    /\ cfg.writer = "opus"
    /\ cfg.format = PCM_FORMAT_S16LE
    /\ calls = << "open:created", "write" >>
    /\ written # << >>

\* ---- C27
\* C27: after a recorder_open that returned -1 the recorder refers to no
\* backend resource that was released, no call releases or reads a released
\* resource again, and once recorder_free was called every backend resource
\* that was acquired was released exactly once.
C27_NoPartialState ==
    /\ (dev.ret = -1 /\ ~dev.freed) =>
          (dev.r = 0 \/ dev.objs[dev.r].rel = 0)
    /\ ~dev.reused
    /\ dev.freed => \A i \in 1..Len(dev.objs) : dev.objs[i].rel = 1

\* The same for a recorder whose only recorder_open succeeded.
C27_AfterSuccess ==
    (dev.freed /\ dev.opens = 1 /\ dev.ret = 0) =>
        (~dev.reused /\ \A i \in 1..Len(dev.objs) : dev.objs[i].rel = 1)

\* ---- C28
C28_Step ==
    stopped' = stopped + 1 =>
       /\ ~started'
       /\ cfg.backend = "pipewire" => bk' # "active"
       /\ stopped >= 1 =>
             UNCHANGED << rb, mem, wtotal, rtotal, cfg, started, mutex, pc_m,
                          pc_c, pc_p, samples, p_samples, p_n, bk, w, written,
                          committed, now, activation_time, ts_last_write,
                          at_clear, log, mon >>

\* C28: a call of recorder_stop leaves the running flag false and the
\* PipeWire loop stopped, and a second call changes nothing in the recorder,
\* the threads, the backend or the writer, whatever happened between the
\* two calls.
C28_StopIdempotent == [][C28_Step]_vars

\* recorder_stop was called twice while recorder_start was running.
C28_Witness ==
    /\ stopped = MaxStops + 1
    /\ pc_m # "done"

\* ---- C29
\* recorder_process is in its loop.
InCall == pc_p \in {"p_loop", "p_copy", "p_signal"}

C29_Step ==
    /\ (mon'["A"].called /\ ~cfg.monitor /\ mon'["A"].rms > cfg.threshold) =>
          (mon'["A"].ret = 0 /\ pc_p' = "p_loop" /\ p_samples' > 0)
    /\ InCall =>
          /\ p_samples' + wtotal' = p_samples + wtotal
          /\ rb'.used - rb.used = wtotal' - wtotal
          /\ rtotal' = rtotal
    /\ (InCall /\ pc_p' = "cb_ret") =>
          /\ p_samples' = 0 \/ rb'.used = rb'.nmemb
          /\ rtotal' = 0 => rbuf_read_linear_capacity(rb') = wtotal'

\* C29: without the monitor mode and without a consumer, recorder_process on
\* a chunk whose RMS is above the threshold enters its loop with the whole
\* chunk; every sample it takes off the chunk adds one to used; and it
\* returns with samples left only when the buffer is full, so a chunk of n
\* samples adds exactly n to used whenever n elements are free, also when
\* they lie on both sides of the wrap point.  On a recorder nothing was read
\* from the read linear capacity is then the number of samples placed.
C29_ProcessPlacesChunk == [][C29_Step]_vars

\* A chunk was placed in two slices, around the wrap point, and fitted.
C29_Witness ==
    /\ pc_m = "created"
    /\ pc_p = "cb_ret"
    /\ p_n = 2
    /\ p_samples = 0
    /\ rb.used < rb.nmemb
    /\ rb.tail < rb.head

\* ---- C30
\* Every sample of the chunk has the value 0.
AllZero(buffer) == \A i \in 1..Len(buffer) : buffer[i] = 0

\* Every sample of the chunk is at the zero level of its format.
Silent(format, buffer) ==
    \A i \in 1..Len(buffer) : buffer[i] = ZeroLevel(format)

\* C30: pcm_rms_db returns the floor value -96 for a chunk of zero length and
\* for any chunk of all-zero samples, in both formats, and computes neither
\* a mean over no samples nor the logarithm of 0.
C30_FloorForAllZero ==
    pcm # NoChunk =>
       /\ pcm.fault = ""
       /\ AllZero(pcm.buffer) => pcm.db = FloorDb

\* C30, amended: the same for a chunk of zero length and for any chunk whose
\* samples are all at the zero level of the format, 0 for S16LE and 0x80 for
\* U8.
C30_FloorForSilence ==
    pcm # NoChunk =>
       /\ pcm.fault = ""
       /\ Silent(pcm.format, pcm.buffer) => pcm.db = FloorDb

\* A silent U8 chunk was measured.
C30_Witness ==
    /\ pcm.format = PCM_FORMAT_U8
    /\ pcm.buffer = << 128, 128 >>
    /\ pcm.db = FloorDb

\* ---- C31
\* The consumer is blocked although the ring buffer holds data, and no
\* producer is between its commit and its signal.
LeftBlocked ==
    /\ pc_c = "wait"
    /\ started
    /\ rb.used > 0
    /\ pc_p \notin {"p_signal", "a_signal"}

\* C31: while the recorder is started the consumer is never left blocked on
\* the condition variable with data in the ring buffer, and committed samples
\* that were not handed to the writer still have a consumer that will take
\* them.
C31_NoLostWakeup ==
    /\ ~LeftBlocked
    /\ (started /\ Len(written) < Len(committed)) => pc_c # "done"

\* The wake-up protocol by itself: the consumer is never left blocked.
C31_NeverLeftBlocked == ~LeftBlocked

\* The hand-over in the runs in which no open of the writer fails: what was
\* committed is written unless the recorder is stopped first.
C31_HandedOver ==
    \A k \in 1..LiveTotal :
        (Len(committed) >= k /\ started)
            ~> (Len(written) >= k \/ ~started \/ w.err # 0)

\* ---- C32
\* A step that copies sample data into the memory of the ring buffer.
CopiesData == mem' # mem

\* A step in which a call of the writer does file I/O: open, write, close or
\* free.
WriterIO == w' # w \/ written' # written

C32_Step ==
    /\ CopiesData => mutex # "producer"
    /\ WriterIO => mutex # "consumer"

\* C32: no thread holds the mutex while it copies sample data into the ring
\* buffer (recorder_process, the ALSA read) or while it executes a call of the
\* writer that does file I/O (open, write, close, the rotation close
\* included).
C32_MutexOnlyForCursors == [][C32_Step]_vars

\* The ALSA read and the writer's open, write and free by themselves.
C32_OutsideMutex ==
    [][ /\ (pc_p = "a_read" /\ CopiesData) => mutex # "producer"
        /\ (pc_c \in {"open", "write", "fail"} /\ WriterIO) => mutex # "consumer"
      ]_vars

\* The two places that do hold it: the memcpy of recorder_process and the
\* close in the wait loop.
C32_InsideMutex ==
    [][ /\ (pc_p = "p_copy" /\ CopiesData) => mutex = "producer"
        /\ (pc_c = "rotate" /\ WriterIO) => mutex = "consumer"
      ]_vars

\* ---- C33
C33_Step ==
    /\ (pc_c = "check" /\ pc_c' = "test" /\ started) =>
          /\ samples' = rbuf_read_linear_capacity(rb)
          /\ samples' > 0
    /\ pc_c \in {"test", "open", "write", "lock2", "commit"} => samples' = samples
    /\ (pc_c = "write" /\ pc_c' = "lock2") =>
          /\ written' = written \o Cells(mem, ElemOf(rb, rb.head), samples)
          /\ ElemOf(rb, rb.head) + samples <= rb.nmemb
    /\ (pc_c = "commit" /\ pc_c' = "lock") =>
          /\ Len(written) = rtotal + samples
          /\ rtotal' = rtotal + samples
          /\ rb'.used = rb.used - samples
          /\ ElemOf(rb', rb'.head) = (ElemOf(rb, rb.head) + samples) % rb.nmemb
          /\ rb'.tail = rb.tail

\* C33: each pass of the consumer loop hands to the writer exactly the
\* samples of the read linear capacity it sampled under the mutex, none from
\* beyond the end of the memory block, and then commits exactly that number
\* as read, whatever the producer committed in the meantime.
C33_DrainsSampledRun == [][C33_Step]_vars

\* The consumer is about to commit a run that ended before the end of the
\* block; since it sampled the run the producer has committed more and has
\* wrapped.
C33_Witness ==
    /\ pc_c = "commit"
    /\ rb.used > samples
    /\ rb.tail < rb.head
    /\ ElemOf(rb, rb.head) + samples < rb.nmemb
    /\ rbuf_read_linear_capacity(rb) > samples

\* ---- C34
\* Where the consumer is when it makes a call of the writer: the rotation
\* close, open, write and free.
WriterCallSites == {"rotate", "open", "write", "fail"}

C34_Step ==
    /\ WriterIO =>
          /\ pc_c \in WriterCallSites
          /\ pc_c' # pc_c
          /\ pc_m' = pc_m /\ pc_p' = pc_p /\ stopped' = stopped
    /\ (w.opened /\ ~w'.opened /\ ~w'.freed) =>
          /\ pc_c = "rotate"
          /\ written' = written
          /\ Len(written) = rtotal

\* C34: the writer is called from the consumer thread only, one call at a
\* time: no step of the producer, of recorder_start or of recorder_stop
\* touches it, and the rotation close is executed in the wait loop, after the
\* last write has returned and its samples were committed as read, never
\* during a write.
C34_WriterCallsSerial == [][C34_Step]_vars

\* The rotation close has been executed after a write, while the producer is
\* inside recorder_process.
C34_Witness ==
    /\ pc_c = "check"
    /\ ~w.opened /\ ~w.freed
    /\ Len(written) > 0
    /\ pc_p = "p_loop"

\* ---- C35
\* The elements a step commits for write and for read.
WriteCommitted == wtotal' - wtotal
ReadCommitted == rtotal' - rtotal

C35_Step ==
    /\ (pc_p \in {"a_commit", "p_copy"} /\ pc_p' # pc_p) =>
          /\ WriteCommitted <= rbuf_write_linear_capacity(rb)
          /\ rb' = rbuf_write_linear_commit(rb, WriteCommitted)
          /\ pc_p = "a_commit" => WriteCommitted = p_n
    /\ (pc_c = "commit" /\ pc_c' # pc_c) =>
          /\ ReadCommitted = samples
          /\ ReadCommitted <= rbuf_read_linear_capacity(rb)
          /\ rb' = rbuf_read_linear_commit(rb, ReadCommitted)
    /\ rb' # rb =>
          \/ pc_p \in {"a_commit", "p_copy"} /\ pc_p' # pc_p
          \/ pc_c = "commit" /\ pc_c' # pc_c

\* C35: every rbuf_write_linear_commit and rbuf_read_linear_commit issued by
\* recorder_process, by the ALSA loop and by the consumer passes a number no
\* greater than the linear capacity of that side at the moment of the commit,
\* in every interleaving; on a full buffer the ALSA loop commits zero.
C35_CommitsWithinCapacity == [][C35_Step]_vars

\* The ALSA loop found the buffer full, read no frame and commits zero.
C35_Witness ==
    /\ pc_p = "a_commit"
    /\ p_n = 0
    /\ rb.used = rb.nmemb
    /\ rbuf_write_linear_capacity(rb) = 0

\* ---- C36
C36_Step ==
    /\ wtotal' # wtotal =>
          rbuf_read_linear_capacity(rb') >= rbuf_read_linear_capacity(rb)
    /\ rtotal' # rtotal =>
          rbuf_write_linear_capacity(rb') >= rbuf_write_linear_capacity(rb)

\* C36: a commit within the linear capacity of its side never decreases the
\* linear capacity of the other side: a write commit leaves the read
\* capacity at least what it was, a read commit leaves the write capacity at
\* least what it was, with and without a wrap of the cursor.
C36_OtherSideKeepsCapacity == [][C36_Step]_vars

\* A write commit has wrapped the tail to begin while unread elements remain
\* in front of the end.
C36_Witness ==
    /\ rb.nmemb >= 3
    /\ rb.tail = rb.begin
    /\ rb.head > rb.begin
    /\ rb.used > 0
    /\ wtotal >= rb.nmemb
    /\ rbuf_read_linear_capacity(rb) = rb.used

\* ---- C37
\* C37: with chunks of whole frames and nmemb a multiple of the channel
\* count, head, tail and used are multiples of the channel count in every
\* reachable state, overrun drops included, and so is every read linear
\* capacity the consumer sampled; the samples / channels frames passed to the
\* writer are exactly the samples that are then committed as read.
C37_FrameAligned ==
    /\ rb.nmemb % cfg.channels = 0
    /\ ElemOf(rb, rb.head) % cfg.channels = 0
    /\ ElemOf(rb, rb.tail) % cfg.channels = 0
    /\ rb.used % cfg.channels = 0
    /\ pc_c \in {"test", "open", "write", "lock2", "commit"} =>
          samples % cfg.channels = 0
    /\ pc_c \in {"lock2", "commit"} => Len(written) = rtotal + samples
    /\ IsPrefix(written, committed)

\* With two channels: the rest of a chunk was dropped on the full buffer
\* after a first slice, and the consumer is about to commit a run of frames
\* it has written.
C37_Witness ==
    /\ cfg.channels = 2
    /\ pc_p = "cb_ret"
    /\ p_n = 2
    /\ p_samples > 0
    /\ log = Overrun
    /\ pc_c = "commit"
    /\ samples >= 2 * cfg.channels

\* ---- C38
\* The chunk the producer is dealing with was classified not live.
NotLive == mon["A"].called /\ mon["A"].ret = -1

C38_Step ==
    /\ (~mon["A"].called /\ mon'["A"].called /\ mon'["A"].ret = -1) =>
          /\ rb' = rb
          /\ pc_c' = pc_c
          /\ pc_p' = IF cfg.backend = "alsa" THEN "a_signal" ELSE "cb_ret"
    /\ (NotLive /\ pc_p' # pc_p) =>
          /\ rb' = rb
          /\ wtotal' = wtotal
          /\ pc_p \in {"cb_ret", "a_signal"}
          /\ pc_p = "cb_ret" => (pc_p' = "idle" /\ pc_c' = pc_c)
          /\ pc_p = "a_signal" => (pc_p' = "a_top" /\ pc_c' = cond_signal(pc_c))
    /\ (pc_p = "a_commit" /\ pc_p' # pc_p) => pc_p' = "a_signal"
    /\ (pc_p = "a_signal" /\ pc_p' # pc_p) => pc_c' = cond_signal(pc_c)

\* C38: a chunk for which recorder_monitor returned -1 leaves the ring buffer
\* unchanged in both producers; recorder_process returns for it without a
\* signal on the condition variable, while the ALSA loop signals after every
\* chunk, live or not.
C38_NotLiveLeavesBuffer == [][C38_Step]_vars

\* The ALSA loop is about to signal for a chunk that is not live while the
\* consumer waits on an empty buffer after earlier data.
C38_Witness ==
    /\ NotLive
    /\ pc_p = "a_signal"
    /\ pc_c = "wait"
    /\ rtotal > 0
    /\ rb.used = 0

\* ---- C39
\* C39: outside the monitor mode recorder_monitor returns 0 only if a chunk,
\* this one or an earlier one, was above the threshold at most fadeout
\* milliseconds before the evaluation; before the first such chunk every
\* chunk is not live, whatever the clock shows.
C39_LiveOnlyAfterLoud ==
    LET c == mon["A"]
    IN  (c.called /\ ~cfg.monitor /\ c.ret = 0) =>
            /\ c.loud_at >= 0
            /\ c.at - c.loud_at <= cfg.fadeout

\* What the code does before the first chunk above the threshold: the chunk
\* is live exactly while the clock is not beyond the fadeout time.
C39_ClockAsActivation ==
    LET c == mon["A"]
    IN  (c.called /\ ~cfg.monitor /\ c.loud_at < 0) =>
            (c.ret = 0 <=> c.at <= cfg.fadeout)

\* ---- C40
\* The backend's start operation has failed and recorder_start has returned.
StartFailed == log = StartError /\ pc_m = "done"

\* C40: when the backend's start operation fails, recorder_start shuts the
\* consumer thread down and returns a value other than 0 to its caller.
C40_StartFailureReported ==
    StartFailed =>
        /\ pc_c = "done"
        /\ ~started
        /\ recorder_start_return # 0

\* The shutdown by itself: the flag is cleared, the consumer has terminated,
\* nothing was captured.
C40_ConsumerShutDown ==
    StartFailed =>
        /\ pc_c = "done"
        /\ ~started
        /\ wtotal = 0 /\ written = << >>
====
